---- MODULE Spec2Model ----
(***************************************************************************)
(* Number-DNA analyzer: digit-pair transformation, field classification,   *)
(* cancellation rules and lucky-number chain synthesis.                    *)
(*                                                                         *)
(* A digit string is a sequence over 0..9, a pair is a two-element         *)
(* sequence <<a, b>>.  Characters of a fixed affix are the integers 10..   *)
(* (letters) or 0..9 (digits).  The field names of the source are written  *)
(* in English: Resting (fu-wei), Longevity (yan-nian), LifeForce           *)
(* (sheng-qi), HeavenDoctor (tian-yi), SixEvils (liu-sha), Doom            *)
(* (jue-ming), Calamity (huo-hai), FiveGhosts (wu-gui), Unknown (wei-zhi). *)
(***************************************************************************)
EXTENDS Integers, Sequences, FiniteSets, TLC

VARIABLES
    mode,               \* which entry point of the program is running
    seed,               \* the seed of the random source
    \* ---- FieldAnalyzer.transform_numbers / get_name_from_pair
    orig_str,           \* the argument of transform_numbers
    number_str,         \* the local number_str, rewritten step by step
    pairs,              \* the local pairs
    names,              \* labels of the pairs (analyze_input)
    tpc,                \* position inside transform_numbers
    name_order,         \* iteration order of NAME_MAP.items()
    \* ---- apply_advanced_rules
    input_list,         \* the label sequence
    base_counts,        \* Counter(input_list)
    adjusted_counts,    \* the Counter the rules mutate, then the returned dict
    adjust_log,         \* the adjustment log
    used_indexes,       \* 0-based indexes consumed by rules 3 and 5
    ri,                 \* the loop index i of the rule being applied
    rpc,                \* the rule being applied
    \* ---- recommendation_engine
    magnetic_fields,    \* adjusted counts handed to generate_multiple_lucky_numbers
    neg_fields,         \* generate_lucky_numbers: the local neg_fields
    cancel_fields,      \* the compensation budget
    remaining_fields,   \* the copy of the budget one draw consumes
    magnetic_sequence,  \* the chain of pairs of the current draw
    length,             \* the length argument
    count,              \* the count argument
    results_len,        \* len(results)
    lucky,              \* the numeral of the current draw
    used_fallback,      \* the current draw took the branch `if not candidates`
    spc,                \* position inside the recommendation engine
    \* ---- on_analyze_click / analyze / generate_full_lucky_numbers
    input_valid,        \* outcome of the is_valid_<type> check of the input value
    digits_length,      \* input_data.digits_length
    fixed_digits_position,
    fixed_digits_value,
    errors,             \* the list validate_all returns
    new_recommendation, \* the current numeral with the fixed characters inserted
    analyzer,           \* which analyze ran: the module function or the method
    ppc,                \* position inside on_analyze_click
    \* ---- AnalyzeController.analyze
    input_type,         \* input_data.input_type
    input_value,        \* input_data.input_value
    raw_analysis,       \* result_data.raw_analysis
    analysis_errors,    \* the local list errors of analyze
    result_counts,      \* result_data.counts
    result_adjusted_counts,
    result_adjusted_log,
    result_recommendations,     \* len(result_data.recommendations)
    result_errors,      \* result_data.errors
    apc                 \* position inside analyze

tvars == <<orig_str, number_str, pairs, names, tpc, name_order>>
rvars == <<input_list, base_counts, adjusted_counts, adjust_log, used_indexes, ri, rpc>>
svars == <<magnetic_fields, neg_fields, cancel_fields, remaining_fields,
           magnetic_sequence, length, count, results_len, lucky, used_fallback, spc>>
cvars == <<input_valid, digits_length, fixed_digits_position, fixed_digits_value>>
pvars == <<cvars, errors, new_recommendation, analyzer, ppc>>
avars == <<input_type, input_value, raw_analysis, analysis_errors, result_counts,
           result_adjusted_counts, result_adjusted_log, result_recommendations,
           result_errors, apc>>
vars == <<mode, seed, tvars, rvars, svars, pvars, avars>>

\* ------------------------------------------------------------------ bounds
MaxLen == 4
MaxRewriteLen == 6
MaxLabels == 4
MaxBadTotal == 2
MaxLength == 4
MaxCount == 2
MaxDigitsLength == 3
MaxAffix == 2
MaxPairLen == 2
MaxGood == 1
MaxNameLen == 2
MaxSeed == 2

\* -------------------------------------------------------------- utilities
Digits == 0..9
RewriteDigits == {0, 1, 3, 5, 9}

RECURSIVE SeqsUpTo(_, _)
SeqsUpTo(S, n) ==
    IF n = 0 THEN {<<>>}
    ELSE LET shorter == SeqsUpTo(S, n - 1)
         IN  shorter \cup {Append(s, c) : s \in {t \in shorter : Len(t) = n - 1}, c \in S}

\* ''.join(parts), and a list built by appending lists one after another
RECURSIVE Concat(_)
Concat(ss) == IF ss = <<>> THEN <<>> ELSE Head(ss) \o Concat(Tail(ss))

Reverse(s) == [k \in 1..Len(s) |-> s[Len(s) + 1 - k]]
Rotate(s, r) == [k \in 1..Len(s) |-> s[((k - 1 + r) % Len(s)) + 1]]

None == <<"None">>

\* ResultData as analyze leaves it when it assigns nothing
AIdle ==
    /\ input_type = "NONE" /\ input_value = <<>> /\ raw_analysis = None
    /\ analysis_errors = <<>> /\ result_counts = <<>>
    /\ result_adjusted_counts = <<>> /\ result_adjusted_log = <<>>
    /\ result_recommendations = 0 /\ result_errors = <<>> /\ apc = "idle"

\* ------------------------------------------------------------- Classifier
NameOrder ==
    <<"Resting", "Longevity", "LifeForce", "HeavenDoctor",
      "SixEvils", "Doom", "Calamity", "FiveGhosts">>

\* variant: "13" typed for "19" in the Longevity catalogue, so that 13 is in
\* two catalogues
NAME_MAP_overlap ==
    [f \in {NameOrder[k] : k \in 1..Len(NameOrder)} |->
        CASE f = "Resting" ->
               {<<0,0>>, <<1,1>>, <<2,2>>, <<3,3>>, <<4,4>>, <<6,6>>, <<7,7>>, <<8,8>>, <<9,9>>}
          [] f = "Longevity" ->
               {<<1,3>>, <<9,1>>, <<7,8>>, <<8,7>>, <<4,3>>, <<3,4>>, <<2,6>>, <<6,2>>}
          [] f = "LifeForce" ->
               {<<1,4>>, <<4,1>>, <<6,7>>, <<7,6>>, <<9,3>>, <<3,9>>, <<2,8>>, <<8,2>>}
          [] f = "HeavenDoctor" ->
               {<<1,3>>, <<3,1>>, <<6,8>>, <<8,6>>, <<9,4>>, <<4,9>>, <<7,2>>, <<2,7>>}
          [] f = "SixEvils" ->
               {<<1,6>>, <<6,1>>, <<7,4>>, <<4,7>>, <<3,8>>, <<8,3>>, <<9,2>>, <<2,9>>}
          [] f = "Doom" ->
               {<<1,2>>, <<2,1>>, <<6,9>>, <<9,6>>, <<8,4>>, <<4,8>>, <<3,7>>, <<7,3>>}
          [] f = "Calamity" ->
               {<<1,7>>, <<7,1>>, <<9,8>>, <<8,9>>, <<6,4>>, <<4,6>>, <<3,2>>, <<2,3>>}
          [] f = "FiveGhosts" ->
               {<<1,8>>, <<8,1>>, <<9,7>>, <<7,9>>, <<3,6>>, <<6,3>>, <<4,2>>, <<2,4>>}]

NAME_MAP ==
    [f \in {NameOrder[k] : k \in 1..Len(NameOrder)} |->
        CASE f = "Resting" ->
               {<<0,0>>, <<1,1>>, <<2,2>>, <<3,3>>, <<4,4>>, <<6,6>>, <<7,7>>, <<8,8>>, <<9,9>>}
          [] f = "Longevity" ->
               {<<1,9>>, <<9,1>>, <<7,8>>, <<8,7>>, <<4,3>>, <<3,4>>, <<2,6>>, <<6,2>>}
          [] f = "LifeForce" ->
               {<<1,4>>, <<4,1>>, <<6,7>>, <<7,6>>, <<9,3>>, <<3,9>>, <<2,8>>, <<8,2>>}
          [] f = "HeavenDoctor" ->
               {<<1,3>>, <<3,1>>, <<6,8>>, <<8,6>>, <<9,4>>, <<4,9>>, <<7,2>>, <<2,7>>}
          [] f = "SixEvils" ->
               {<<1,6>>, <<6,1>>, <<7,4>>, <<4,7>>, <<3,8>>, <<8,3>>, <<9,2>>, <<2,9>>}
          [] f = "Doom" ->
               {<<1,2>>, <<2,1>>, <<6,9>>, <<9,6>>, <<8,4>>, <<4,8>>, <<3,7>>, <<7,3>>}
          [] f = "Calamity" ->
               {<<1,7>>, <<7,1>>, <<9,8>>, <<8,9>>, <<6,4>>, <<4,6>>, <<3,2>>, <<2,3>>}
          [] f = "FiveGhosts" ->
               {<<1,8>>, <<8,1>>, <<9,7>>, <<7,9>>, <<3,6>>, <<6,3>>, <<4,2>>, <<2,4>>}]

Fields == DOMAIN NAME_MAP
Labels == Fields \cup {"Unknown"}

\* for name, group in NAME_MAP.items(): if pair in group: return name
RECURSIVE FirstMatch(_, _, _)
FirstMatch(pair, order, k) ==
    IF k > Len(order) THEN "Unknown"
    ELSE IF pair \in NAME_MAP[order[k]] THEN order[k]
    ELSE FirstMatch(pair, order, k + 1)

get_name_from_pair(pair, order) == FirstMatch(pair, order, 1)

classify(ps, order) == [k \in 1..Len(ps) |-> get_name_from_pair(ps[k], order)]

\* ------------------------------------------------------------ Transformer
\* the while loop of handle_5_between_9_1; i is the 0-based index
RECURSIVE handle_loop(_, _, _)
handle_loop(s, i, result) ==
    IF i < Len(s) - 2
    THEN IF s[i + 1] = 9 /\ s[i + 2] = 5 /\ s[i + 3] = 1
         THEN handle_loop(s, i + 3, result \o <<9, 1, 9, 1>>)
         ELSE IF s[i + 1] = 1 /\ s[i + 2] = 5 /\ s[i + 3] = 9
         THEN handle_loop(s, i + 3, result \o <<1, 9, 1, 9>>)
         ELSE handle_loop(s, i + 1, Append(result, s[i + 1]))
    ELSE result \o SubSeq(s, i + 1, Len(s))

\* variant: the scan stops one position early (while i < len(s) - 3)
RECURSIVE handle_loop_short(_, _, _)
handle_loop_short(s, i, result) ==
    IF i < Len(s) - 3
    THEN IF s[i + 1] = 9 /\ s[i + 2] = 5 /\ s[i + 3] = 1
         THEN handle_loop_short(s, i + 3, result \o <<9, 1, 9, 1>>)
         ELSE IF s[i + 1] = 1 /\ s[i + 2] = 5 /\ s[i + 3] = 9
         THEN handle_loop_short(s, i + 3, result \o <<1, 9, 1, 9>>)
         ELSE handle_loop_short(s, i + 1, Append(result, s[i + 1]))
    ELSE result \o SubSeq(s, i + 1, Len(s))

handle_5_short_scan(s) == handle_loop_short(s, 0, <<>>)

handle_5_between_9_1(s) == handle_loop(s, 0, <<>>)

NotFive(c) == c # 5

\* variant: replace('5', '', 1), only the first interior 5 is removed
RECURSIVE remove_first_5(_)
remove_first_5(s) ==
    IF s = <<>> THEN s
    ELSE IF Head(s) = 5 THEN Tail(s)
    ELSE <<Head(s)>> \o remove_first_5(Tail(s))

remove_middle_5_once(s) ==
    IF Len(s) > 2
    THEN <<s[1]>> \o remove_first_5(SubSeq(s, 2, Len(s) - 1)) \o <<s[Len(s)]>>
    ELSE s

\* number_str[0] + number_str[1:-1].replace('5', '') + number_str[-1]
remove_middle_5(s) ==
    IF Len(s) > 2
    THEN <<s[1]>> \o SelectSeq(SubSeq(s, 2, Len(s) - 1), NotFive) \o <<s[Len(s)]>>
    ELSE s

\* variant: number_str[1] + number_str[1:], the second digit only doubled
leading_5_double(s) == IF s[1] = 5 THEN <<s[2]>> \o Tail(s) ELSE s

\* number_str[1] * 2 + number_str[1:]
leading_5(s) == IF s[1] = 5 THEN <<s[2], s[2]>> \o Tail(s) ELSE s

\* variant: number_str[:-1] + number_str[-2] * 2, the digit tripled
trailing_5_triple(s) ==
    IF s[Len(s)] = 5
    THEN SubSeq(s, 1, Len(s) - 1) \o <<s[Len(s) - 1], s[Len(s) - 1]>>
    ELSE s

\* number_str[:-2] + number_str[-2] * 2
trailing_5(s) ==
    IF s[Len(s)] = 5
    THEN SubSeq(s, 1, Len(s) - 2) \o <<s[Len(s) - 1], s[Len(s) - 1]>>
    ELSE s

edge_5(s) == IF Len(s) >= 2 THEN trailing_5(leading_5(s)) ELSE s

\* variant: the first test does not look at the 5 (a == '0' or b == '0')
make_pair_zero_first(a, b) ==
    IF a = 0 \/ b = 0
    THEN (IF a = 0 THEN <<b, b>> ELSE <<a, a>>)
    ELSE IF a = 5 \/ b = 5
    THEN (IF a = 5 THEN <<b, b>> ELSE <<a, a>>)
    ELSE <<a, b>>

\* variant: the two characters are taken as they are, 0 and 5 included
make_pair_literal(a, b) == <<a, b>>

make_pair(a, b) ==
    IF (a = 0 /\ b # 5) \/ (b = 0 /\ a # 5)
    THEN (IF a = 0 THEN <<b, b>> ELSE <<a, a>>)
    ELSE IF (a = 5 /\ b = 0) \/ (a = 0 /\ b = 5)
    THEN <<0, 0>>
    ELSE IF a = 5 \/ b = 5
    THEN (IF a = 5 THEN <<b, b>> ELSE <<a, a>>)
    ELSE <<a, b>>

\* variant: for i in range(0, len(number_str) - 1, 2), pairs that do not overlap
pairing_stride_2(s) == [k \in 1..(Len(s) \div 2) |-> make_pair(s[2 * k - 1], s[2 * k])]

pairing(s) == [k \in 1..(Len(s) - 1) |-> make_pair(s[k], s[k + 1])]

transform_numbers(s) == pairing(edge_5(remove_middle_5(handle_5_between_9_1(s))))

\* ---- transform_numbers and analyze_input as a state machine
TIdle ==
    /\ orig_str = <<>> /\ number_str = <<>> /\ pairs = <<>> /\ names = <<>>
    /\ tpc = "idle" /\ name_order = NameOrder

NameOrders ==
    {Rotate(NameOrder, r) : r \in 0..(Len(NameOrder) - 1)}
        \cup {Rotate(Reverse(NameOrder), r) : r \in 0..(Len(NameOrder) - 1)}

TStart(inputs) ==
    /\ orig_str \in inputs
    /\ number_str = orig_str
    /\ pairs = <<>>
    /\ names = <<>>
    /\ tpc = "start"
    /\ name_order = NameOrder

THandle ==
    /\ tpc = "start"
    /\ number_str' = handle_5_between_9_1(number_str)
    /\ tpc' = "handled"
    /\ UNCHANGED <<mode, seed, avars, rvars, svars, pvars, orig_str, pairs, names, name_order>>

TRemoveMiddle ==
    /\ tpc = "handled"
    /\ number_str' = remove_middle_5(number_str)
    /\ tpc' = "removed"
    /\ UNCHANGED <<mode, seed, avars, rvars, svars, pvars, orig_str, pairs, names, name_order>>

TEdge ==
    /\ tpc = "removed"
    /\ number_str' = edge_5(number_str)
    /\ tpc' = "edged"
    /\ UNCHANGED <<mode, seed, avars, rvars, svars, pvars, orig_str, pairs, names, name_order>>

TPairing ==
    /\ tpc = "edged"
    /\ pairs' = pairing(number_str)
    /\ tpc' = "paired"
    /\ UNCHANGED <<mode, seed, avars, rvars, svars, pvars, orig_str, number_str, names, name_order>>

TClassify ==
    /\ tpc = "paired"
    /\ names' = classify(pairs, name_order)
    /\ tpc' = "done"
    /\ UNCHANGED <<mode, seed, avars, rvars, svars, pvars, orig_str, number_str, pairs, name_order>>

\* ---------------------------------------------------------------- Resolver
\* collections.Counter: a missing key reads as 0 and is not inserted by the
\* read; an augmented assignment inserts it
Get(c, k) == IF k \in DOMAIN c THEN c[k] ELSE 0
Put(c, k, v) == [x \in DOMAIN c \cup {k} |-> IF x = k THEN v ELSE c[x]]
Add(c, k, d) == Put(c, k, Get(c, k) + d)
Counter(list) ==
    [f \in {list[k] : k \in 1..Len(list)} |->
        Cardinality({k \in 1..Len(list) : list[k] = f})]
\* variant: the first count is taken instead of the smaller one
Min_first(a, b) == a

Min(a, b) == IF a <= b THEN a ELSE b

RIdle ==
    /\ input_list = <<>> /\ base_counts = <<>> /\ adjusted_counts = <<>>
    /\ adjust_log = <<>> /\ used_indexes = {} /\ ri = 0 /\ rpc = "idle"

RStart(inputs) ==
    /\ input_list \in inputs
    /\ base_counts = Counter(input_list)
    /\ adjusted_counts = base_counts
    /\ adjust_log = <<>>
    /\ used_indexes = {}
    /\ ri = 0
    /\ rpc = "rule1"

\* rules 1 and 2: cancel_count = min(counts[good], counts[bad])
Offset(good, bad, next) ==
    LET cancel_count == Min(Get(adjusted_counts, good), Get(adjusted_counts, bad))
    IN  /\ IF cancel_count > 0
           THEN /\ adjusted_counts' =
                       Add(Add(adjusted_counts, good, -cancel_count), bad, -cancel_count)
                /\ adjust_log' = adjust_log \o << <<<<good, -cancel_count>>>>,
                                                  <<<<bad, -cancel_count>>>> >>
           ELSE UNCHANGED <<adjusted_counts, adjust_log>>
        /\ rpc' = next
        /\ UNCHANGED <<mode, seed, avars, tvars, svars, pvars, input_list, base_counts, used_indexes, ri>>

Rule1 == rpc = "rule1" /\ Offset("HeavenDoctor", "Doom", "rule2")
Rule2 == rpc = "rule2" /\ Offset("Longevity", "SixEvils", "rule3")

group_pairs ==
    {<<"HeavenDoctor", "HeavenDoctor">>, <<"HeavenDoctor", "Longevity">>,
     <<"LifeForce", "Resting">>, <<"Longevity", "LifeForce">>}

\* variant: i += 1 after a match, so that the next pair overlaps it
Rule3Match_step_1 ==
    /\ rpc = "rule3" /\ ri < Len(input_list) - 1
    /\ LET pair == <<input_list[ri + 1], input_list[ri + 2]>>
       IN  /\ pair \in group_pairs /\ Get(adjusted_counts, "Calamity") > 0
           /\ adjust_log' = Append(adjust_log,
                  <<<<pair[1], -1>>, <<pair[2], -1>>, <<"Calamity", -1>>>>)
           /\ adjusted_counts' =
                  Add(Add(Add(adjusted_counts, pair[1], -1), pair[2], -1), "Calamity", -1)
    /\ used_indexes' = used_indexes \cup {ri, ri + 1}
    /\ ri' = ri + 1
    /\ UNCHANGED <<mode, seed, avars, tvars, svars, pvars, input_list, base_counts, rpc>>

\* variant: adjust_log.insert(0, ...), the entry is put in front
Rule3Match_insert_front ==
    /\ rpc = "rule3" /\ ri < Len(input_list) - 1
    /\ LET pair == <<input_list[ri + 1], input_list[ri + 2]>>
       IN  /\ pair \in group_pairs /\ Get(adjusted_counts, "Calamity") > 0
           /\ adjust_log' = <<<<<<pair[1], -1>>, <<pair[2], -1>>, <<"Calamity", -1>>>>>>
                               \o adjust_log
           /\ adjusted_counts' =
                  Add(Add(Add(adjusted_counts, pair[1], -1), pair[2], -1), "Calamity", -1)
    /\ used_indexes' = used_indexes \cup {ri, ri + 1}
    /\ ri' = ri + 2
    /\ UNCHANGED <<mode, seed, avars, tvars, svars, pvars, input_list, base_counts, rpc>>

\* variant: the matched positions are not put into used_indexes
Rule3Match_unmarked ==
    /\ rpc = "rule3" /\ ri < Len(input_list) - 1
    /\ LET pair == <<input_list[ri + 1], input_list[ri + 2]>>
       IN  /\ pair \in group_pairs /\ Get(adjusted_counts, "Calamity") > 0
           /\ adjust_log' = Append(adjust_log,
                  <<<<pair[1], -1>>, <<pair[2], -1>>, <<"Calamity", -1>>>>)
           /\ adjusted_counts' =
                  Add(Add(Add(adjusted_counts, pair[1], -1), pair[2], -1), "Calamity", -1)
    /\ ri' = ri + 2
    /\ UNCHANGED <<mode, seed, avars, tvars, svars, pvars, input_list, base_counts, used_indexes, rpc>>

\* rule 3, one iteration of the while loop
Rule3Match ==
    /\ rpc = "rule3" /\ ri < Len(input_list) - 1
    /\ LET pair == <<input_list[ri + 1], input_list[ri + 2]>>
       IN  /\ pair \in group_pairs /\ Get(adjusted_counts, "Calamity") > 0
           /\ adjust_log' = Append(adjust_log,
                  <<<<pair[1], -1>>, <<pair[2], -1>>, <<"Calamity", -1>>>>)
           /\ adjusted_counts' =
                  Add(Add(Add(adjusted_counts, pair[1], -1), pair[2], -1), "Calamity", -1)
    /\ used_indexes' = used_indexes \cup {ri, ri + 1}
    /\ ri' = ri + 2
    /\ UNCHANGED <<mode, seed, avars, tvars, svars, pvars, input_list, base_counts, rpc>>

Rule3Skip ==
    /\ rpc = "rule3" /\ ri < Len(input_list) - 1
    /\ ~(/\ <<input_list[ri + 1], input_list[ri + 2]>> \in group_pairs
          /\ Get(adjusted_counts, "Calamity") > 0)
    /\ ri' = ri + 1
    /\ UNCHANGED <<mode, seed, avars, tvars, svars, pvars, input_list, base_counts, adjusted_counts, adjust_log,
                   used_indexes, rpc>>

Rule3Exit ==
    /\ rpc = "rule3" /\ ~(ri < Len(input_list) - 1)
    /\ rpc' = "rule4" /\ ri' = 0
    /\ UNCHANGED <<mode, seed, avars, tvars, svars, pvars, input_list, base_counts, adjusted_counts, adjust_log,
                   used_indexes>>

\* variant: the triplet counts only if rule 3 consumed none of its positions
IsTriplet_unconsumed(i) ==
    /\ SubSeq(input_list, i + 1, i + 3) = <<"LifeForce", "HeavenDoctor", "Longevity">>
    /\ {i, i + 1, i + 2} \cap used_indexes = {}

IsTriplet(i) ==
    SubSeq(input_list, i + 1, i + 3) = <<"LifeForce", "HeavenDoctor", "Longevity">>

\* rule 4, one iteration of the while loop
Rule4Match ==
    /\ rpc = "rule4" /\ ri < Len(input_list) - 2
    /\ IsTriplet(ri) /\ Get(adjusted_counts, "FiveGhosts") > 0
    /\ adjust_log' = Append(adjust_log,
           <<<<"LifeForce", -1>>, <<"HeavenDoctor", -1>>, <<"Longevity", -1>>,
             <<"FiveGhosts", -1>>>>)
    /\ adjusted_counts' =
           Add(Add(Add(Add(adjusted_counts, "LifeForce", -1), "HeavenDoctor", -1),
                   "Longevity", -1), "FiveGhosts", -1)
    /\ ri' = ri + 3
    /\ UNCHANGED <<mode, seed, avars, tvars, svars, pvars, input_list, base_counts, used_indexes, rpc>>

Rule4Skip ==
    /\ rpc = "rule4" /\ ri < Len(input_list) - 2
    /\ ~(IsTriplet(ri) /\ Get(adjusted_counts, "FiveGhosts") > 0)
    /\ ri' = ri + 1
    /\ UNCHANGED <<mode, seed, avars, tvars, svars, pvars, input_list, base_counts, adjusted_counts, adjust_log,
                   used_indexes, rpc>>

Rule4Exit ==
    /\ rpc = "rule4" /\ ~(ri < Len(input_list) - 2)
    /\ rpc' = "rule5" /\ ri' = 0
    /\ UNCHANGED <<mode, seed, avars, tvars, svars, pvars, input_list, base_counts, adjusted_counts, adjust_log,
                   used_indexes>>

\* the inner while of rule 5: the first j >= start that ends the run
RECURSIVE RunEnd(_)
RunEnd(j) ==
    IF j < Len(input_list) /\ input_list[j + 1] = "Resting" /\ j \notin used_indexes
    THEN RunEnd(j + 1)
    ELSE j

Rule5Skipped == ri \in used_indexes \/ input_list[ri + 1] = "Resting"

\* rule 5, one iteration of the while loop
Rule5Skip ==
    /\ rpc = "rule5" /\ ri < Len(input_list) - 1
    /\ Rule5Skipped
    /\ ri' = ri + 1
    /\ UNCHANGED <<mode, seed, avars, tvars, svars, pvars, input_list, base_counts, adjusted_counts, adjust_log,
                   used_indexes, rpc>>

\* variant: i += 1 after an absorption, the scan does not jump past the run
Rule5Absorb_no_jump ==
    /\ rpc = "rule5" /\ ri < Len(input_list) - 1
    /\ ~Rule5Skipped
    /\ LET j == RunEnd(ri + 1)
           run == j - (ri + 1)
       IN  /\ run > 0 /\ Get(adjusted_counts, "Resting") >= run
           /\ adjusted_counts' =
                  Add(Add(adjusted_counts, input_list[ri + 1], run), "Resting", -run)
           /\ adjust_log' = Append(adjust_log,
                  <<<<input_list[ri + 1], run>>, <<"Resting", -run>>>>)
           /\ used_indexes' = used_indexes \cup (ri..(j - 1))
           /\ ri' = ri + 1
    /\ UNCHANGED <<mode, seed, avars, tvars, svars, pvars, input_list, base_counts, rpc>>

\* variant: the absorbed run is not subtracted from the Resting count
Rule5Absorb_keep_resting ==
    /\ rpc = "rule5" /\ ri < Len(input_list) - 1
    /\ ~Rule5Skipped
    /\ LET j == RunEnd(ri + 1)
           run == j - (ri + 1)
       IN  /\ run > 0 /\ Get(adjusted_counts, "Resting") >= run
           /\ adjusted_counts' = Add(adjusted_counts, input_list[ri + 1], run)
           /\ adjust_log' = Append(adjust_log,
                  <<<<input_list[ri + 1], run>>, <<"Resting", -run>>>>)
           /\ used_indexes' = used_indexes \cup (ri..(j - 1))
           /\ ri' = j
    /\ UNCHANGED <<mode, seed, avars, tvars, svars, pvars, input_list, base_counts, rpc>>

Rule5Absorb ==
    /\ rpc = "rule5" /\ ri < Len(input_list) - 1
    /\ ~Rule5Skipped
    /\ LET j == RunEnd(ri + 1)
           run == j - (ri + 1)
       IN  /\ run > 0 /\ Get(adjusted_counts, "Resting") >= run
           /\ adjusted_counts' =
                  Add(Add(adjusted_counts, input_list[ri + 1], run), "Resting", -run)
           /\ adjust_log' = Append(adjust_log,
                  <<<<input_list[ri + 1], run>>, <<"Resting", -run>>>>)
           /\ used_indexes' = used_indexes \cup (ri..(j - 1))
           /\ ri' = j
    /\ UNCHANGED <<mode, seed, avars, tvars, svars, pvars, input_list, base_counts, rpc>>

Rule5NoRun ==
    /\ rpc = "rule5" /\ ri < Len(input_list) - 1
    /\ ~Rule5Skipped
    /\ LET run == RunEnd(ri + 1) - (ri + 1)
       IN  ~(run > 0 /\ Get(adjusted_counts, "Resting") >= run)
    /\ ri' = ri + 1
    /\ UNCHANGED <<mode, seed, avars, tvars, svars, pvars, input_list, base_counts, adjusted_counts, adjust_log,
                   used_indexes, rpc>>

Rule5Exit ==
    /\ rpc = "rule5" /\ ~(ri < Len(input_list) - 1)
    /\ rpc' = "filter"
    /\ UNCHANGED <<mode, seed, avars, tvars, svars, pvars, input_list, base_counts, adjusted_counts, adjust_log,
                   used_indexes, ri>>

\* variant: only the entries equal to 0 are removed (if v != 0)
nonzero_items(c) == [k \in {x \in DOMAIN c : c[x] # 0} |-> c[k]]

\* {k: v for k, v in adjusted_counts.items() if v > 0}
positive_items(c) == [k \in {x \in DOMAIN c : c[x] > 0} |-> c[k]]

RemoveZero ==
    /\ rpc = "filter"
    /\ adjusted_counts' = positive_items(adjusted_counts)
    /\ rpc' = "done"
    /\ UNCHANGED <<mode, seed, avars, tvars, svars, pvars, input_list, base_counts, adjust_log, used_indexes, ri>>

RNext ==
    \/ Rule1 \/ Rule2
    \/ Rule3Match \/ Rule3Skip \/ Rule3Exit
    \/ Rule4Match \/ Rule4Skip \/ Rule4Exit
    \/ Rule5Skip \/ Rule5Absorb \/ Rule5NoRun \/ Rule5Exit
    \/ RemoveZero

\* ------------------------------------------------------------ Synthesizer
Compound == "HeavenDoctor+LifeForce+Longevity"
components == {"HeavenDoctor", "LifeForce", "Longevity"}
BadFields == {"FiveGhosts", "SixEvils", "Doom", "Calamity"}
BudgetFields == {"HeavenDoctor", "LifeForce", "Resting", "Longevity", Compound}

\* variant: "10" typed for "00" in the Resting catalogue, so that no pair
\* starts with 0
magneticic_pairs_no_zero_start ==
    [f \in {"Resting", "LifeForce", "HeavenDoctor", "Longevity"} |->
        CASE f = "Resting" ->
               {<<1,0>>, <<1,1>>, <<2,2>>, <<3,3>>, <<4,4>>, <<6,6>>, <<7,7>>, <<8,8>>, <<9,9>>}
          [] f = "LifeForce" ->
               {<<1,4>>, <<4,1>>, <<6,7>>, <<7,6>>, <<3,9>>, <<9,3>>, <<2,8>>, <<8,2>>}
          [] f = "HeavenDoctor" ->
               {<<1,3>>, <<3,1>>, <<6,8>>, <<8,6>>, <<4,9>>, <<9,4>>, <<2,7>>, <<7,2>>}
          [] f = "Longevity" ->
               {<<1,9>>, <<9,1>>, <<7,8>>, <<8,7>>, <<3,4>>, <<4,3>>, <<2,6>>, <<6,2>>}]

magneticic_pairs ==
    [f \in {"Resting", "LifeForce", "HeavenDoctor", "Longevity"} |->
        CASE f = "Resting" ->
               {<<0,0>>, <<1,1>>, <<2,2>>, <<3,3>>, <<4,4>>, <<6,6>>, <<7,7>>, <<8,8>>, <<9,9>>}
          [] f = "LifeForce" ->
               {<<1,4>>, <<4,1>>, <<6,7>>, <<7,6>>, <<3,9>>, <<9,3>>, <<2,8>>, <<8,2>>}
          [] f = "HeavenDoctor" ->
               {<<1,3>>, <<3,1>>, <<6,8>>, <<8,6>>, <<4,9>>, <<9,4>>, <<2,7>>, <<7,2>>}
          [] f = "Longevity" ->
               {<<1,9>>, <<9,1>>, <<7,8>>, <<8,7>>, <<3,4>>, <<4,3>>, <<2,6>>, <<6,2>>}]

SIdle ==
    /\ magnetic_fields = <<>> /\ neg_fields = <<>> /\ cancel_fields = <<>>
    /\ remaining_fields = <<>> /\ magnetic_sequence = <<>> /\ length = 0
    /\ count = 0 /\ results_len = 0 /\ lucky = <<>> /\ used_fallback = FALSE
    /\ spc = "idle"

\* generate_lucky_numbers: neg_fields and the three loops without a random
\* choice (Doom, SixEvils, FiveGhosts)
BudgetFixed ==
    /\ spc = "budget"
    /\ neg_fields' =
          [f \in BadFields |-> IF f = "Calamity" THEN Get(magnetic_fields, f) ELSE 0]
    /\ cancel_fields' =
          [f \in BudgetFields |->
              CASE f = "HeavenDoctor" -> Get(magnetic_fields, "Doom")
                [] f = "Longevity" -> Get(magnetic_fields, "SixEvils")
                [] f = Compound -> Get(magnetic_fields, "FiveGhosts")
                [] OTHER -> 0]
    /\ spc' = "calamity"
    /\ UNCHANGED <<mode, seed, avars, tvars, rvars, pvars, magnetic_fields, remaining_fields,
                   magnetic_sequence, length, count, results_len, lucky, used_fallback>>

\* variant: the unit of LifeForce is not added, only the random one
BudgetCalamity_random_only ==
    /\ spc = "calamity" /\ neg_fields["Calamity"] > 0
    /\ \E r \in {"LifeForce", "Resting", "Longevity"} :
          cancel_fields' =
              [f \in BudgetFields |-> cancel_fields[f] + (IF f = r THEN 1 ELSE 0)]
    /\ neg_fields' = [neg_fields EXCEPT !["Calamity"] = @ - 1]
    /\ UNCHANGED <<mode, seed, avars, tvars, rvars, pvars, magnetic_fields, remaining_fields,
                   magnetic_sequence, length, count, results_len, lucky, used_fallback,
                   spc>>

\* one iteration of while neg_fields[Calamity] > 0
BudgetCalamity ==
    /\ spc = "calamity" /\ neg_fields["Calamity"] > 0
    /\ \E r \in {"LifeForce", "Resting", "Longevity"} :
          cancel_fields' =
              [f \in BudgetFields |->
                  cancel_fields[f] + (IF f = "LifeForce" THEN 1 ELSE 0)
                                   + (IF f = r THEN 1 ELSE 0)]
    /\ neg_fields' = [neg_fields EXCEPT !["Calamity"] = @ - 1]
    /\ UNCHANGED <<mode, seed, avars, tvars, rvars, pvars, magnetic_fields, remaining_fields,
                   magnetic_sequence, length, count, results_len, lucky, used_fallback,
                   spc>>

\* return cancel_fields; results = []
BudgetReturn ==
    /\ spc = "calamity" /\ neg_fields["Calamity"] <= 0
    /\ results_len' = 0
    /\ spc' = "draw"
    /\ UNCHANGED <<mode, seed, avars, tvars, rvars, pvars, magnetic_fields, neg_fields, cancel_fields,
                   remaining_fields, magnetic_sequence, length, count, lucky,
                   used_fallback>>

possible_start_fields == {f \in BudgetFields : cancel_fields[f] > 0}

\* variant: remaining_fields = cancel_fields without copy(), the draw
\* consumes the shared budget
StartFromBudget_shared ==
    /\ spc = "draw" /\ results_len < count
    /\ possible_start_fields # {}
    /\ \E field \in possible_start_fields :
          \E start_field \in (IF field = Compound THEN components ELSE {field}) :
             \E start_pair \in magneticic_pairs[start_field] :
                /\ magnetic_sequence' = <<start_pair>>
                /\ remaining_fields' = [cancel_fields EXCEPT ![field] = @ - 1]
    /\ cancel_fields' = remaining_fields'
    /\ lucky' = <<>> /\ new_recommendation' = <<>>
    /\ used_fallback' = FALSE
    /\ spc' = "grow"
    /\ UNCHANGED <<mode, seed, avars, tvars, rvars, cvars, errors, analyzer, ppc, magnetic_fields,
                   neg_fields, length, count, results_len>>

\* one more draw: remaining_fields = cancel_fields.copy(), the first pair
\* comes from a field with budget left (first field of the shuffled list)
StartFromBudget ==
    /\ spc = "draw" /\ results_len < count
    /\ possible_start_fields # {}
    /\ \E field \in possible_start_fields :
          \E start_field \in (IF field = Compound THEN components ELSE {field}) :
             \E start_pair \in magneticic_pairs[start_field] :
                /\ magnetic_sequence' = <<start_pair>>
                /\ remaining_fields' = [cancel_fields EXCEPT ![field] = @ - 1]
    /\ lucky' = <<>> /\ new_recommendation' = <<>>
    /\ used_fallback' = FALSE
    /\ spc' = "grow"
    /\ UNCHANGED <<mode, seed, avars, tvars, rvars, cvars, errors, analyzer, ppc, magnetic_fields,
                   neg_fields, cancel_fields, length, count, results_len>>

\* no field has budget: the first pair comes from any of the four catalogues
StartAny ==
    /\ spc = "draw" /\ results_len < count
    /\ possible_start_fields = {}
    /\ \E start_field \in DOMAIN magneticic_pairs :
          \E start_pair \in magneticic_pairs[start_field] :
             magnetic_sequence' = <<start_pair>>
    /\ remaining_fields' = cancel_fields
    /\ lucky' = <<>> /\ new_recommendation' = <<>>
    /\ used_fallback' = FALSE
    /\ spc' = "grow"
    /\ UNCHANGED <<mode, seed, avars, tvars, rvars, cvars, errors, analyzer, ppc, magnetic_fields,
                   neg_fields, cancel_fields, length, count, results_len>>

num_fields == length - 1
last_digit == magnetic_sequence[Len(magnetic_sequence)][2]

\* (field, pair) with budget left for field and pair starting with last_digit
candidates ==
    {<<field, pair>> \in
        BudgetFields \X UNION {magneticic_pairs[f] : f \in DOMAIN magneticic_pairs} :
        /\ remaining_fields[field] > 0
        /\ pair[1] = last_digit
        /\ \/ field \in DOMAIN magneticic_pairs /\ pair \in magneticic_pairs[field]
           \/ field = Compound /\ \E c \in components : pair \in magneticic_pairs[c]}

\* pairs of any catalogue starting with last_digit
fallback_candidates ==
    {pair \in UNION {magneticic_pairs[f] : f \in DOMAIN magneticic_pairs} :
        pair[1] = last_digit}

GrowBudget ==
    /\ spc = "grow" /\ Len(magnetic_sequence) < num_fields
    /\ candidates # {}
    /\ \E c \in candidates :
          /\ magnetic_sequence' = Append(magnetic_sequence, c[2])
          /\ remaining_fields' = [remaining_fields EXCEPT ![c[1]] = @ - 1]
    /\ UNCHANGED <<mode, seed, avars, tvars, rvars, pvars, magnetic_fields, neg_fields, cancel_fields,
                   length, count, results_len, lucky, used_fallback, spc>>

\* variant: the unrestricted search is used although budgeted candidates
\* exist (the test `if not candidates` is missing)
GrowFallback_any_time ==
    /\ spc = "grow" /\ Len(magnetic_sequence) < num_fields
    /\ fallback_candidates # {}
    /\ \E pair \in fallback_candidates :
          magnetic_sequence' = Append(magnetic_sequence, pair)
    /\ used_fallback' = TRUE
    /\ UNCHANGED <<mode, seed, avars, tvars, rvars, pvars, magnetic_fields, neg_fields, cancel_fields,
                   remaining_fields, length, count, results_len, lucky, spc>>

GrowFallback ==
    /\ spc = "grow" /\ Len(magnetic_sequence) < num_fields
    /\ candidates = {} /\ fallback_candidates # {}
    /\ \E pair \in fallback_candidates :
          magnetic_sequence' = Append(magnetic_sequence, pair)
    /\ used_fallback' = TRUE
    /\ UNCHANGED <<mode, seed, avars, tvars, rvars, pvars, magnetic_fields, neg_fields, cancel_fields,
                   remaining_fields, length, count, results_len, lucky, spc>>

\* variant: result += magnetic_sequence[i], the whole pair is appended
render_whole_pairs(seq) == Concat(seq)

\* result = magnetic_sequence[0]; result += magnetic_sequence[i][1]
render(seq) == seq[1] \o [k \in 1..(Len(seq) - 1) |-> seq[k + 1][2]]

\* the loop ends (length reached, or the break when nothing fits) and the
\* chain is rendered
Render ==
    /\ spc = "grow"
    /\ \/ ~(Len(magnetic_sequence) < num_fields)
       \/ candidates = {} /\ fallback_candidates = {}
    /\ lucky' = render(magnetic_sequence)
    /\ spc' = "rendered"
    /\ UNCHANGED <<mode, seed, avars, tvars, rvars, pvars, magnetic_fields, neg_fields, cancel_fields,
                   remaining_fields, magnetic_sequence, length, count, results_len,
                   used_fallback>>

\* prev + fixed_digits_value + post
insert_fixed(recommendation, position, value, target) ==
    LET cut == CASE position = "BEGIN" -> 0
                 [] position = "CENTER" -> (target + 1) \div 2
                 [] position = "END" -> Len(recommendation)
        at == IF cut > Len(recommendation) THEN Len(recommendation) ELSE cut
    IN  SubSeq(recommendation, 1, at) \o value
            \o SubSeq(recommendation, at + 1, Len(recommendation))

\* the chain function returns (its locals are gone), results.append(lucky);
\* generate_full_lucky_numbers then inserts the fixed characters into each
\* numeral (every numeral is handled alike and on its own, so the insertion
\* is taken right after the draw)
Collect ==
    /\ spc = "rendered"
    /\ results_len' = results_len + 1
    /\ new_recommendation' =
          IF fixed_digits_position # "NONE"
          THEN insert_fixed(lucky, fixed_digits_position, fixed_digits_value, length)
          ELSE lucky
    /\ magnetic_sequence' = <<>> /\ remaining_fields' = <<>> /\ used_fallback' = FALSE
    /\ spc' = "draw"
    /\ UNCHANGED <<mode, seed, avars, tvars, rvars, cvars, errors, analyzer, ppc, magnetic_fields,
                   neg_fields, cancel_fields, length, count, lucky>>

\* return results
Return ==
    /\ spc = "draw" /\ ~(results_len < count)
    /\ spc' = "returned"
    /\ ppc' = IF ppc = "generating" THEN "done" ELSE ppc
    /\ UNCHANGED <<mode, seed, avars, tvars, rvars, cvars, errors, new_recommendation, analyzer,
                   magnetic_fields, neg_fields, cancel_fields, remaining_fields,
                   magnetic_sequence, length, count, results_len, lucky, used_fallback>>

SNext ==
    \/ BudgetFixed \/ BudgetCalamity \/ BudgetReturn
    \/ StartFromBudget \/ StartAny
    \/ GrowBudget \/ GrowFallback \/ Render \/ Collect \/ Return

\* ---- the random source: the n-th number it gives is a function of the
\* seed, and every random.choice, sample and shuffle takes its numbers in turn
Rand(n) == ((seed + 3) * (n + 5) * 37 + n * n * 11 + seed * 7) % 1009

\* random.choice(seq) with the number r
Pick(seq, r) == seq[(r % Len(seq)) + 1]

\* the orders in which the code goes through its dicts and lists
BudgetOrder == <<"HeavenDoctor", "LifeForce", "Resting", "Longevity", Compound>>
KeyOrder == <<"Resting", "LifeForce", "HeavenDoctor", "Longevity">>
ComponentOrder == <<"HeavenDoctor", "LifeForce", "Longevity">>
pair_order ==
    [f \in {"Resting", "LifeForce", "HeavenDoctor", "Longevity"} |->
        CASE f = "Resting" ->
               <<<<0,0>>, <<1,1>>, <<2,2>>, <<3,3>>, <<4,4>>, <<6,6>>, <<7,7>>, <<8,8>>, <<9,9>>>>
          [] f = "LifeForce" ->
               <<<<1,4>>, <<4,1>>, <<6,7>>, <<7,6>>, <<3,9>>, <<9,3>>, <<2,8>>, <<8,2>>>>
          [] f = "HeavenDoctor" ->
               <<<<1,3>>, <<3,1>>, <<6,8>>, <<8,6>>, <<4,9>>, <<9,4>>, <<2,7>>, <<7,2>>>>
          [] f = "Longevity" ->
               <<<<1,9>>, <<9,1>>, <<7,8>>, <<8,7>>, <<3,4>>, <<4,3>>, <<2,6>>, <<6,2>>>>]

\* how many numbers the run has taken from the source: one per Calamity
\* unit, three for the start of a draw, one per pair the chain grows by
GrowSteps == IF num_fields > 1 THEN num_fields - 1 ELSE 0
DrawCost == 3 + GrowSteps
Taken ==
    CASE spc = "calamity" -> Get(magnetic_fields, "Calamity") - neg_fields["Calamity"]
      [] spc = "draw" -> Get(magnetic_fields, "Calamity") + results_len * DrawCost
      [] spc = "grow" -> Get(magnetic_fields, "Calamity") + results_len * DrawCost
                           + 3 + (Len(magnetic_sequence) - 1)
      [] OTHER -> 0

HasBudget(f) == cancel_fields[f] > 0
StartsWithLast(pair) == pair[1] = last_digit
Tagged(f, ps) == [k \in 1..Len(ps) |-> <<f, ps[k]>>]

\* the list candidates, in the order the loops append to it
FieldCandidates(f) ==
    IF remaining_fields[f] <= 0 THEN <<>>
    ELSE IF f \in DOMAIN pair_order
    THEN Tagged(f, SelectSeq(pair_order[f], StartsWithLast))
    ELSE Concat([k \in 1..Len(ComponentOrder) |->
                    Tagged(f, SelectSeq(pair_order[ComponentOrder[k]], StartsWithLast))])
candidates_list == Concat([k \in 1..Len(BudgetOrder) |-> FieldCandidates(BudgetOrder[k])])
fallback_list ==
    Concat([k \in 1..Len(KeyOrder) |-> SelectSeq(pair_order[KeyOrder[k]], StartsWithLast)])

\* the steps with a random choice, the choice taken from the source
SeededBudgetCalamity ==
    /\ BudgetCalamity
    /\ LET r == Pick(<<"LifeForce", "Resting", "Longevity">>, Rand(Taken))
       IN  cancel_fields' =
              [f \in BudgetFields |->
                  cancel_fields[f] + (IF f = "LifeForce" THEN 1 ELSE 0)
                                   + (IF f = r THEN 1 ELSE 0)]

SeededStartFromBudget ==
    /\ StartFromBudget
    /\ LET field == Pick(SelectSeq(BudgetOrder, HasBudget), Rand(Taken))
           start_field == IF field = Compound
                          THEN Pick(ComponentOrder, Rand(Taken + 1)) ELSE field
       IN  /\ magnetic_sequence' = <<Pick(pair_order[start_field], Rand(Taken + 2))>>
           /\ remaining_fields' = [cancel_fields EXCEPT ![field] = @ - 1]

SeededStartAny ==
    /\ StartAny
    /\ magnetic_sequence' =
          <<Pick(pair_order[Pick(KeyOrder, Rand(Taken + 1))], Rand(Taken + 2))>>

SeededGrowBudget ==
    /\ GrowBudget
    /\ LET c == Pick(candidates_list, Rand(Taken))
       IN  /\ magnetic_sequence' = Append(magnetic_sequence, c[2])
           /\ remaining_fields' = [remaining_fields EXCEPT ![c[1]] = @ - 1]

\* variant: the fallback pair comes from a source the seed does not reach
GrowFallback_unseeded == GrowFallback

SeededGrowFallback ==
    /\ GrowFallback
    /\ magnetic_sequence' = Append(magnetic_sequence, Pick(fallback_list, Rand(Taken)))

SeededNext ==
    \/ BudgetFixed \/ SeededBudgetCalamity \/ BudgetReturn
    \/ SeededStartFromBudget \/ SeededStartAny
    \/ SeededGrowBudget \/ SeededGrowFallback \/ Render \/ Collect \/ Return

\* ---------------------------------------------------------------- Pipeline
DefaultCount == 5
Positions == {"NONE", "BEGIN", "CENTER", "END"}
AffixChars == {7, 10}
Alnum == 0..35

PIdle ==
    /\ input_valid = TRUE /\ digits_length = 0 /\ fixed_digits_position = "NONE"
    /\ fixed_digits_value = <<>> /\ errors = <<>> /\ new_recommendation = <<>>
    /\ analyzer = "none" /\ ppc = "idle"

\* s.isalnum() and 1 <= len(s) <= 4
is_valid_fixed_num(s) ==
    /\ s # <<>> /\ \A k \in 1..Len(s) : s[k] \in Alnum
    /\ 1 <= Len(s) /\ Len(s) <= 4

is_valid_digit_length(n) == n > 1

\* variant: the fixed characters may be as long as the whole numeral
\* (len(fixed_digits_value) > digits_length)
validate_all_weak(valid, dl, position, value) ==
    (IF valid THEN <<>> ELSE <<"input">>)
    \o (IF is_valid_digit_length(dl) THEN <<>> ELSE <<"digits_length">>)
    \o (IF position = "NONE" THEN <<>>
        ELSE IF ~is_valid_fixed_num(value) THEN <<"fixed_digits">>
        ELSE IF is_valid_digit_length(dl) /\ Len(value) > dl
        THEN <<"fixed_digits_length">>
        ELSE <<>>)

\* the errors, in order; digits_length = inf when the length is invalid, so
\* that the comparison with it is false
validate_all(valid, dl, position, value) ==
    (IF valid THEN <<>> ELSE <<"input">>)
    \o (IF is_valid_digit_length(dl) THEN <<>> ELSE <<"digits_length">>)
    \o (IF position = "NONE" THEN <<>>
        ELSE IF ~is_valid_fixed_num(value) THEN <<"fixed_digits">>
        ELSE IF is_valid_digit_length(dl) /\ Len(value) >= dl
        THEN <<"fixed_digits_length">>
        ELSE <<>>)

\* on_analyze_click: errors = validate_all(data); if errors: showerror, return
Validate ==
    /\ ppc = "input"
    /\ errors' = validate_all(input_valid, digits_length, fixed_digits_position,
                              fixed_digits_value)
    /\ ppc' = IF errors' # <<>> THEN "rejected" ELSE "validated"
    /\ UNCHANGED <<mode, seed, avars, tvars, rvars, svars, cvars, new_recommendation, analyzer>>

\* analyze (controller/analysis_controller.py): its own check of the fixed
\* characters, then generate_lucky_numbers(adjusted_counts, digits_length)
AnalyzeFunction ==
    /\ ppc = "validated"
    /\ analyzer' = "function"
    /\ IF fixed_digits_position # "NONE" /\ Len(fixed_digits_value) >= digits_length
       THEN /\ ppc' = "done"
            /\ UNCHANGED <<length, count, spc>>
       ELSE /\ length' = IF fixed_digits_position # "NONE"
                         THEN digits_length - Len(fixed_digits_value)
                         ELSE digits_length
            /\ count' = DefaultCount
            /\ spc' = "budget"
            /\ ppc' = "generating"
    /\ UNCHANGED <<mode, seed, avars, tvars, rvars, cvars, errors, new_recommendation,
                   magnetic_fields, neg_fields, cancel_fields, remaining_fields,
                   magnetic_sequence, results_len, lucky, used_fallback>>

\* AnalyzeController.analyze -> generate_full_lucky_numbers: no check
AnalyzeMethod ==
    /\ ppc = "validated"
    /\ analyzer' = "method"
    /\ length' = IF fixed_digits_position # "NONE"
                 THEN digits_length - Len(fixed_digits_value)
                 ELSE digits_length
    /\ count' = DefaultCount
    /\ spc' = "budget"
    /\ ppc' = "generating"
    /\ UNCHANGED <<mode, seed, avars, tvars, rvars, cvars, errors, new_recommendation,
                   magnetic_fields, neg_fields, cancel_fields, remaining_fields,
                   magnetic_sequence, results_len, lucky, used_fallback>>

PNext == Validate \/ AnalyzeFunction \/ AnalyzeMethod \/ SNext

AdjustedInputs ==
    {m \in [BadFields -> 0..MaxBadTotal] :
        m["FiveGhosts"] + m["SixEvils"] + m["Doom"] + m["Calamity"] <= MaxBadTotal}
PipelineInputs ==
    {[f \in BadFields |-> 0], [f \in BadFields |-> IF f = "Doom" THEN 1 ELSE 0],
     [f \in BadFields |-> IF f = "Calamity" THEN 1 ELSE 0]}

\* generate_multiple_lucky_numbers(magnetic_input, length, count)
InitSynth ==
    /\ seed = 0 /\ mode = "synth" /\ TIdle /\ RIdle /\ PIdle /\ AIdle
    /\ magnetic_fields \in AdjustedInputs
    /\ length \in 1..MaxLength
    /\ count \in 1..MaxCount
    /\ neg_fields = <<>> /\ cancel_fields = <<>> /\ remaining_fields = <<>>
    /\ magnetic_sequence = <<>> /\ results_len = 0 /\ lucky = <<>>
    /\ used_fallback = FALSE
    /\ spc = "budget"
SpecSynth == InitSynth /\ [][SNext]_vars

\* one call of the chain function after the budget was made; the program
\* is sequential, so a step that can be taken is taken
InitChain ==
    /\ seed = 0 /\ mode = "chain" /\ TIdle /\ RIdle /\ PIdle /\ AIdle
    /\ magnetic_fields \in AdjustedInputs
    /\ length \in 1..MaxLength
    /\ count = 1
    /\ neg_fields = <<>> /\ cancel_fields = <<>> /\ remaining_fields = <<>>
    /\ magnetic_sequence = <<>> /\ results_len = 0 /\ lucky = <<>>
    /\ used_fallback = FALSE
    /\ spc = "budget"
SpecChain == InitChain /\ [][SNext]_vars /\ WF_vars(SNext)

\* generate_multiple_lucky_numbers with a seeded random source, on no bad
\* field and on one unit of each bad field
SeededInputs ==
    {[f \in BadFields |-> IF f = b THEN 1 ELSE 0] : b \in BadFields \cup {"none"}}
InitSeeded ==
    /\ mode = "seeded" /\ TIdle /\ RIdle /\ PIdle /\ AIdle
    /\ seed \in 0..MaxSeed
    /\ magnetic_fields \in SeededInputs
    /\ length \in 1..MaxLength
    /\ count \in 1..MaxCount
    /\ neg_fields = <<>> /\ cancel_fields = <<>> /\ remaining_fields = <<>>
    /\ magnetic_sequence = <<>> /\ results_len = 0 /\ lucky = <<>>
    /\ used_fallback = FALSE
    /\ spc = "budget"
SpecSeeded == InitSeeded /\ [][SeededNext]_vars

\* on_analyze_click with the settings of the form
InitPipeline ==
    /\ seed = 0 /\ mode = "pipeline" /\ TIdle /\ RIdle /\ AIdle
    /\ input_valid \in BOOLEAN
    /\ digits_length \in (-1)..MaxDigitsLength
    /\ fixed_digits_position \in Positions
    /\ fixed_digits_value \in SeqsUpTo(AffixChars, MaxAffix)
    /\ errors = <<>> /\ new_recommendation = <<>> /\ analyzer = "none"
    /\ ppc = "input"
    /\ magnetic_fields \in PipelineInputs
    /\ neg_fields = <<>> /\ cancel_fields = <<>> /\ remaining_fields = <<>>
    /\ magnetic_sequence = <<>> /\ length = 0 /\ count = 0 /\ results_len = 0
    /\ lucky = <<>> /\ used_fallback = FALSE
    /\ spc = "idle"
SpecPipeline == InitPipeline /\ [][PNext]_vars

\* ----------------------------------------------- AnalyzeController.analyze
\* some entries of the stroke table; UnknownChar has no entry
stroke_dict == ("ch1" :> 1) @@ ("ch9" :> 9) @@ ("ch14" :> 14)
UnknownChar == "chX"
NameChars == DOMAIN stroke_dict \cup {UnknownChar}

\* str(n) of a stroke count
Str(n) == IF n < 10 THEN <<n>> ELSE <<n \div 10, n % 10>>

\* " ".join(names) and raw_analysis.split(), a string being its sequence of
\* words and separators
RECURSIVE Join(_)
Join(ws) ==
    IF Len(ws) <= 1 THEN ws ELSE <<Head(ws), " ">> \o Join(Tail(ws))
IsWord(t) == t # " "
Split(text) == SelectSeq(text, IsWord)

Recognized(name_str) == \A k \in 1..Len(name_str) : name_str[k] \in DOMAIN stroke_dict
stroke_string(name_str) == Concat([k \in 1..Len(name_str) |-> Str(stroke_dict[name_str[k]])])

\* not raw_analysis
Falsy(text) == text = None \/ text = <<>>

\* the branch on input_type: analyze_name_strokes or analyze_input, and
\* result_data.raw_analysis = raw_analysis
AnalyzeClassify ==
    /\ apc = "start"
    /\ IF input_type = "NAME" /\ ~Recognized(input_value)
       THEN /\ raw_analysis' = None
            /\ UNCHANGED tvars
       ELSE LET digits == IF input_type = "NAME" THEN stroke_string(input_value)
                          ELSE input_value
            IN  /\ orig_str' = digits
                /\ number_str' = edge_5(remove_middle_5(handle_5_between_9_1(digits)))
                /\ pairs' = transform_numbers(digits)
                /\ names' = classify(pairs', name_order)
                /\ raw_analysis' = Join(names')
                /\ tpc' = "done"
                /\ UNCHANGED name_order
    /\ apc' = "classified"
    /\ UNCHANGED <<mode, seed, rvars, svars, pvars, input_type, input_value, analysis_errors,
                   result_counts, result_adjusted_counts, result_adjusted_log,
                   result_recommendations, result_errors>>

\* if not raw_analysis: errors.append(...); return result_data
AnalyzeEmpty ==
    /\ apc = "classified" /\ Falsy(raw_analysis)
    /\ analysis_errors' = Append(analysis_errors, "empty analysis")
    /\ apc' = "returned"
    /\ UNCHANGED <<mode, seed, tvars, rvars, svars, pvars, input_type, input_value, raw_analysis,
                   result_counts, result_adjusted_counts, result_adjusted_log,
                   result_recommendations, result_errors>>

\* magnetic_fields_list = raw_analysis.split(); the rules start on it
AnalyzeResolve ==
    /\ apc = "classified" /\ ~Falsy(raw_analysis)
    /\ input_list' = Split(raw_analysis)
    /\ base_counts' = Counter(input_list')
    /\ adjusted_counts' = base_counts'
    /\ adjust_log' = <<>> /\ used_indexes' = {} /\ ri' = 0
    /\ rpc' = "rule1"
    /\ apc' = "resolving"
    /\ UNCHANGED <<mode, seed, tvars, svars, pvars, input_type, input_value, raw_analysis,
                   analysis_errors, result_counts, result_adjusted_counts,
                   result_adjusted_log, result_recommendations, result_errors>>

\* the three results of the rules are stored, generate_full_lucky_numbers
\* is called
AnalyzeGenerate ==
    /\ apc = "resolving" /\ rpc = "done"
    /\ result_counts' = base_counts
    /\ result_adjusted_counts' = adjusted_counts
    /\ result_adjusted_log' = adjust_log
    /\ magnetic_fields' = adjusted_counts
    /\ length' = IF fixed_digits_position # "NONE"
                 THEN digits_length - Len(fixed_digits_value)
                 ELSE digits_length
    /\ count' = DefaultCount
    /\ spc' = "budget"
    /\ apc' = "generating"
    /\ UNCHANGED <<mode, seed, tvars, rvars, pvars, input_type, input_value, raw_analysis,
                   analysis_errors, result_recommendations, result_errors,
                   neg_fields, cancel_fields, remaining_fields, magnetic_sequence,
                   results_len, lucky, used_fallback>>

\* result_data.recommendations = recommendations; return result_data
AnalyzeReturn ==
    /\ apc = "generating" /\ spc = "returned"
    /\ result_recommendations' = results_len
    /\ apc' = "returned"
    /\ UNCHANGED <<mode, seed, tvars, rvars, svars, pvars, input_type, input_value, raw_analysis,
                   analysis_errors, result_counts, result_adjusted_counts,
                   result_adjusted_log, result_errors>>

ANext ==
    \/ AnalyzeClassify \/ AnalyzeEmpty \/ AnalyzeResolve \/ RNext
    \/ AnalyzeGenerate \/ SNext \/ AnalyzeReturn

\* digit inputs: empty, one character, and strings whose labels let each
\* rule and each kind of budget happen
PhoneInputs ==
    {<<>>, <<7>>, <<1, 4, 9, 1, 8>>, <<1, 4, 9, 1, 7>>, <<1, 3, 3>>, <<1, 2, 1>>,
     <<1, 7, 1>>}

TNext == THandle \/ TRemoveMiddle \/ TEdge \/ TPairing \/ TClassify

\* ---------------------------------------------------------- specifications
\* longer label sequences: rules 3 and 4 meet on the same positions; rule 3
\* consumes one Resting and rule 5 absorbs another; a count goes below 0
\* and rule 5 raises another above its raw value
ScenarioLabels ==
    {<<"LifeForce", "HeavenDoctor", "Longevity", "Calamity", "FiveGhosts">>,
     <<"Longevity", "LifeForce", "HeavenDoctor", "Longevity", "Calamity", "FiveGhosts">>,
     <<"LifeForce", "Resting", "Calamity", "Doom", "Resting">>,
     <<"HeavenDoctor", "HeavenDoctor", "Doom", "Calamity", "LifeForce", "Resting">>}

InitResolver == seed = 0 /\ mode = "resolve" /\ TIdle /\ SIdle /\ PIdle /\ AIdle
                /\ RStart(SeqsUpTo(Labels, MaxLabels) \cup ScenarioLabels)
SpecResolver == InitResolver /\ [][RNext]_vars

InitTransform == seed = 0 /\ mode = "transform" /\ RIdle /\ SIdle /\ PIdle /\ AIdle /\ TStart(SeqsUpTo(Digits, MaxLen))
SpecTransform == InitTransform /\ [][TNext]_vars

\* get_name_from_pair over every pair and several iteration orders
InitClassify ==
    /\ seed = 0 /\ mode = "classify" /\ RIdle /\ SIdle /\ PIdle /\ AIdle
    /\ orig_str = <<>> /\ number_str = <<>> /\ names = <<>>
    /\ pairs \in {<<<<a, b>>>> : a \in Digits, b \in Digits}
    /\ tpc = "paired"
    /\ name_order \in NameOrders
SpecClassify == InitClassify /\ [][TClassify]_vars

InitRewrite == seed = 0 /\ mode = "rewrite" /\ RIdle /\ SIdle /\ PIdle /\ AIdle /\ TStart(SeqsUpTo(RewriteDigits, MaxRewriteLen))
SpecRewrite == InitRewrite /\ [][TNext]_vars

\* the pairing loop of transform_numbers on every short string
InitPairing ==
    /\ seed = 0 /\ mode = "pairing" /\ RIdle /\ SIdle /\ PIdle /\ AIdle
    /\ orig_str = <<>> /\ names = <<>> /\ pairs = <<>>
    /\ number_str \in SeqsUpTo(Digits, MaxPairLen)
    /\ tpc = "edged"
    /\ name_order = NameOrder
SpecPairing == InitPairing /\ [][TPairing \/ TClassify]_vars

\* generate_lucky_numbers on the dicts apply_advanced_rules can return:
\* positive counts only, of good and bad fields
GoodFields == {"Resting", "Longevity", "LifeForce", "HeavenDoctor"}
BudgetInputs ==
    {positive_items(b @@ g) : b \in AdjustedInputs, g \in [GoodFields -> 0..MaxGood]}
InitBudget ==
    /\ seed = 0 /\ mode = "budget" /\ TIdle /\ RIdle /\ PIdle /\ AIdle
    /\ magnetic_fields \in BudgetInputs
    /\ neg_fields = <<>> /\ cancel_fields = <<>> /\ remaining_fields = <<>>
    /\ magnetic_sequence = <<>> /\ length = 0 /\ count = 0 /\ results_len = 0
    /\ lucky = <<>> /\ used_fallback = FALSE
    /\ spc = "budget"
SpecBudget == InitBudget /\ [][BudgetFixed \/ BudgetCalamity \/ BudgetReturn]_vars

\* AnalyzeController.analyze on a name or a digit input, numerals of 3 digits
InitAnalyze ==
    /\ seed = 0 /\ mode = "analyze" /\ TIdle /\ RIdle /\ SIdle
    /\ input_valid = TRUE /\ digits_length = 3 /\ fixed_digits_position = "NONE"
    /\ fixed_digits_value = <<>> /\ errors = <<>> /\ new_recommendation = <<>>
    /\ analyzer = "method" /\ ppc = "validated"
    /\ \/ input_type = "NAME" /\ input_value \in SeqsUpTo(NameChars, MaxNameLen)
       \/ input_type = "PHONE" /\ input_value \in PhoneInputs
    /\ raw_analysis = None /\ analysis_errors = <<>> /\ result_counts = <<>>
    /\ result_adjusted_counts = <<>> /\ result_adjusted_log = <<>>
    /\ result_recommendations = 0 /\ result_errors = <<>>
    /\ apc = "start"
SpecAnalyze == InitAnalyze /\ [][ANext]_vars

\* ------------------------------------------------------------- properties
GoodDigits == {1, 2, 3, 4, 6, 7, 8, 9}
LiteralPairs(s) == [k \in 1..(Len(s) - 1) |-> <<s[k], s[k + 1]>>]
Paired == tpc \in {"paired", "done"}
HasTriple(s) ==
    \E p \in 1..(Len(s) - 2) :
        <<s[p], s[p + 1], s[p + 2]>> \in {<<9, 5, 1>>, <<1, 5, 9>>}

\* C1: while rules 1..5 are applied, before the final filtering, every
\* adjusted count is >= 0.
C1_NeverNegative ==
    (mode = "resolve" /\ rpc # "done") =>
        \A k \in DOMAIN adjusted_counts : adjusted_counts[k] >= 0

\* C2: the returned adjusted map holds only strictly positive counts, and
\* each of its keys is a key of the raw tally of the same label sequence.
C2_AdjustedPositiveSubset ==
    (mode = "resolve" /\ rpc = "done") =>
        \A k \in DOMAIN adjusted_counts :
            /\ adjusted_counts[k] > 0
            /\ k \in DOMAIN base_counts
            /\ k \in {input_list[n] : n \in 1..Len(input_list)}

C2_Witness ==
    /\ mode = "resolve" /\ rpc = "done"
    /\ input_list = <<"HeavenDoctor", "Doom", "HeavenDoctor">>
    /\ base_counts = ("HeavenDoctor" :> 2) @@ ("Doom" :> 1)
    /\ adjusted_counts = ("HeavenDoctor" :> 1)

Adjacent(seq) == \A k \in 1..(Len(seq) - 1) : seq[k][2] = seq[k + 1][1]

\* C3: a numeral whose growth never used the unrestricted fallback comes
\* from a chain of length - 1 pairs in which each pair starts with the
\* digit the one before it ends with, and has exactly `length` characters,
\* also for length = 1.
C3_ChainAdjacentExactLength ==
    (mode = "synth" /\ spc = "rendered" /\ ~used_fallback) =>
        /\ Adjacent(magnetic_sequence)
        /\ Len(magnetic_sequence) = length - 1
        /\ Len(lucky) = length

\* C4: with a non-empty affix shorter than the requested length, every
\* numeral of generate_full_lucky_numbers has exactly the requested length
\* and holds the affix as one block at index 0 (Begin), ceil(target / 2)
\* (Center) or target (End), target = length - len(affix).
C4_AffixSplice ==
    (/\ mode = "pipeline" /\ spc = "draw" /\ results_len > 0
     /\ fixed_digits_position # "NONE"
     /\ fixed_digits_value # <<>>
     /\ Len(fixed_digits_value) < digits_length)
    => LET target == digits_length - Len(fixed_digits_value)
           at == CASE fixed_digits_position = "BEGIN" -> 0
                   [] fixed_digits_position = "CENTER" -> (target + 1) \div 2
                   [] fixed_digits_position = "END" -> target
       IN  /\ Len(new_recommendation) = digits_length
           /\ SubSeq(new_recommendation, at + 1, at + Len(fixed_digits_value))
                 = fixed_digits_value

InvalidConfiguration ==
    \/ digits_length <= 0
    \/ DefaultCount <= 0
    \/ fixed_digits_position # "NONE" /\ Len(fixed_digits_value) >= digits_length

\* C5: a configuration with length <= 0, candidateCount <= 0, or an affix
\* at least as long as the length is rejected with an error, and the
\* Synthesizer never runs for it: no numeral comes out of it.
C5_InvalidRejected ==
    (mode = "pipeline" /\ InvalidConfiguration) =>
        /\ spc = "idle" /\ analyzer = "none"
        /\ lucky = <<>> /\ new_recommendation = <<>> /\ results_len = 0
        /\ ppc \in {"input", "rejected"}
        /\ ppc = "rejected" => errors # <<>>

C5_Witness ==
    /\ mode = "pipeline" /\ ppc = "rejected" /\ input_valid
    /\ digits_length = 2 /\ fixed_digits_position = "END"
    /\ fixed_digits_value = <<10, 7>>
    /\ errors = <<"fixed_digits_length">>

\* C6: the eight catalogues of NAME_MAP are pairwise disjoint, so the label
\* of a pair does not depend on the iteration order of the catalogues; a
\* pair of some catalogue gets that catalogue, a pair of none gets Unknown;
\* classify(13, 11, 31) = HeavenDoctor, Resting, HeavenDoctor.
C6_CataloguesDisjoint ==
    /\ \A f, g \in Fields : f # g => NAME_MAP[f] \cap NAME_MAP[g] = {}
    /\ (mode = "classify" /\ tpc = "done") =>
          \A k \in 1..Len(pairs) :
             LET owners == {f \in Fields : pairs[k] \in NAME_MAP[f]}
             IN  /\ Cardinality(owners) <= 1
                 /\ names[k] = FirstMatch(pairs[k], NameOrder, 1)
                 /\ owners = {} => names[k] = "Unknown"
                 /\ owners # {} => owners = {names[k]}
    /\ (mode = "classify" /\ tpc = "done") =>
          classify(<<<<1, 3>>, <<1, 1>>, <<3, 1>>>>, name_order)
              = <<"HeavenDoctor", "Resting", "HeavenDoctor">>

C6_Witness ==
    /\ mode = "classify" /\ tpc = "done"
    /\ name_order = Reverse(NameOrder)
    /\ pairs = <<<<1, 3>>>> /\ names = <<"HeavenDoctor">>

C8_TrailingFive ==
    (/\ mode = "transform" /\ Paired
     /\ Len(orig_str) >= 2 /\ orig_str[Len(orig_str)] = 5
     /\ \A k \in 1..(Len(orig_str) - 1) : orig_str[k] \in GoodDigits)
    => LET n == Len(orig_str)
       IN  /\ pairs = LiteralPairs(SubSeq(orig_str, 1, n - 1))
                        \o <<<<orig_str[n - 1], orig_str[n - 1]>>>>
           /\ Len(pairs) = n - 1

C8_Witness ==
    /\ mode = "transform" /\ tpc = "done" /\ orig_str = <<1, 2, 5>>
    /\ pairs = <<<<1, 2>>, <<2, 2>>>>

\* s with every 5 strictly between its first and last character deleted
RECURSIVE InteriorFivesDeleted(_, _)
InteriorFivesDeleted(s, k) ==
    IF k > Len(s) THEN <<>>
    ELSE (IF k = 1 \/ k = Len(s) \/ s[k] # 5 THEN <<s[k]>> ELSE <<>>)
             \o InteriorFivesDeleted(s, k + 1)

\* C9: for a digit string s of length > 2 without "951" and "159",
\* transform(s) = transform(s with the interior 5s deleted); a string of
\* length <= 2 is not changed by the deletion step.
C9_InteriorFive ==
    /\ (mode = "transform" /\ Paired /\ Len(orig_str) > 2 /\ ~HasTriple(orig_str))
          => pairs = transform_numbers(InteriorFivesDeleted(orig_str, 1))
    /\ (mode = "transform" /\ tpc = "removed" /\ Len(orig_str) <= 2)
          => number_str = orig_str

C9_Witness ==
    /\ mode = "transform" /\ tpc = "done" /\ orig_str = <<1, 2, 5, 3>>
    /\ pairs = <<<<1, 2>>, <<2, 3>>>>

\* leftmost-first, non-overlapping occurrences of 951 and 159
IsTriple(s, p) ==
    /\ p >= 1 /\ p + 2 <= Len(s)
    /\ <<s[p], s[p + 1], s[p + 2]>> \in {<<9, 5, 1>>, <<1, 5, 9>>}

RECURSIVE IsMatch(_, _)
IsMatch(s, p) ==
    /\ IsTriple(s, p)
    /\ ~IsMatch(s, p - 1)
    /\ ~IsMatch(s, p - 2)

RECURSIVE Rewritten(_, _)
Rewritten(s, p) ==
    IF p > Len(s) THEN <<>>
    ELSE (IF IsMatch(s, p) THEN <<s[p], s[p + 2], s[p], s[p + 2]>>
          ELSE IF IsMatch(s, p - 1) \/ IsMatch(s, p - 2) THEN <<>>
          ELSE <<s[p]>>) \o Rewritten(s, p + 1)

\* C10: the triplet rewrite runs first and replaces every leftmost-first,
\* non-overlapping 951 by 9191 and 159 by 1919, passes every other
\* character through, and grows the string by one per match; transform(951)
\* = 91, 19, 91 and transform(159) = 19, 91, 19.
C10_TripletRewrite ==
    /\ (mode = "rewrite" /\ tpc = "handled")
          => /\ number_str = Rewritten(orig_str, 1)
             /\ Len(number_str) = Len(orig_str)
                   + Cardinality({p \in 1..Len(orig_str) : IsMatch(orig_str, p)})
    /\ (mode = "rewrite" /\ Paired /\ orig_str = <<9, 5, 1>>)
          => pairs = <<<<9, 1>>, <<1, 9>>, <<9, 1>>>>
    /\ (mode = "rewrite" /\ Paired /\ orig_str = <<1, 5, 9>>)
          => pairs = <<<<1, 9>>, <<9, 1>>, <<1, 9>>>>

C10_Witness ==
    /\ mode = "rewrite" /\ tpc = "handled"
    /\ orig_str = <<9, 5, 1, 5, 9>> /\ number_str = <<9, 1, 9, 1, 5, 9>>

\* the four cases of the pairing step, as they partition the digit pairs
ExactlyOneZero(a, b) == (a = 0) # (b = 0)
ZeroCase(a, b) == ExactlyOneZero(a, b) /\ a # 5 /\ b # 5
FiveZeroCase(a, b) == {a, b} = {5, 0}
FiveCase(a, b) == (a = 5 \/ b = 5) /\ a # 0 /\ b # 0
LiteralCase(a, b) == ~ZeroCase(a, b) /\ ~FiveZeroCase(a, b) /\ ~FiveCase(a, b)
Doubled(p, d) == p = <<d, d>>

C12_LiteralPairs ==
    (mode = "transform" /\ Paired) =>
        /\ (Len(orig_str) >= 2 /\ \A k \in 1..Len(orig_str) : orig_str[k] \in GoodDigits)
              => /\ Len(pairs) = Len(orig_str) - 1
                 /\ \A k \in 1..Len(pairs) : pairs[k] = <<orig_str[k], orig_str[k + 1]>>
        /\ Len(orig_str) <= 1 => pairs = <<>>

C12_Witness ==
    /\ mode = "transform" /\ tpc = "done" /\ orig_str = <<1, 2, 3>>
    /\ pairs = <<<<1, 2>>, <<2, 3>>>>
    /\ names = <<"Doom", "Calamity">>

AfterRule1 == mode = "resolve" /\ rpc = "rule2"
AfterRule2 == mode = "resolve" /\ rpc = "rule3" /\ ri = 0
OffsetLog(good, bad, k) ==
    IF k > 0 THEN << <<<<good, -k>>>>, <<<<bad, -k>>>> >> ELSE <<>>

\* C13: rule 1 subtracts k1 = min(HeavenDoctor, Doom) from both counts, so
\* one of them is 0 right after it; rule 2 does the same for Longevity and
\* SixEvils; each rule logs two entries when its k > 0 and none otherwise.
\* Labels HeavenDoctor, Doom, HeavenDoctor give raw {HeavenDoctor: 2,
\* Doom: 1}, adjusted {HeavenDoctor: 1} and a log of the two entries of a
\* cancellation of 1.
C13_PairwiseOffset ==
    LET k1 == IF Get(base_counts, "HeavenDoctor") <= Get(base_counts, "Doom")
              THEN Get(base_counts, "HeavenDoctor") ELSE Get(base_counts, "Doom")
        k2 == IF Get(base_counts, "Longevity") <= Get(base_counts, "SixEvils")
              THEN Get(base_counts, "Longevity") ELSE Get(base_counts, "SixEvils")
    IN  /\ (AfterRule1 \/ AfterRule2) =>
              /\ Get(adjusted_counts, "HeavenDoctor") = Get(base_counts, "HeavenDoctor") - k1
              /\ Get(adjusted_counts, "Doom") = Get(base_counts, "Doom") - k1
              /\ Get(adjusted_counts, "HeavenDoctor") = 0 \/ Get(adjusted_counts, "Doom") = 0
        /\ AfterRule1 => adjust_log = OffsetLog("HeavenDoctor", "Doom", k1)
        /\ AfterRule2 =>
              /\ Get(adjusted_counts, "Longevity") = Get(base_counts, "Longevity") - k2
              /\ Get(adjusted_counts, "SixEvils") = Get(base_counts, "SixEvils") - k2
              /\ Get(adjusted_counts, "Longevity") = 0 \/ Get(adjusted_counts, "SixEvils") = 0
              /\ adjust_log = OffsetLog("HeavenDoctor", "Doom", k1)
                                 \o OffsetLog("Longevity", "SixEvils", k2)
        /\ (mode = "resolve" /\ rpc = "done"
               /\ input_list = <<"HeavenDoctor", "Doom", "HeavenDoctor">>) =>
              /\ base_counts = ("HeavenDoctor" :> 2) @@ ("Doom" :> 1)
              /\ adjusted_counts = ("HeavenDoctor" :> 1)
              /\ adjust_log = << <<<<"HeavenDoctor", -1>>>>, <<<<"Doom", -1>>>> >>

C13_Witness ==
    /\ AfterRule2
    /\ input_list = <<"Longevity", "SixEvils", "SixEvils", "Doom">>
    /\ adjusted_counts = ("Longevity" :> 0) @@ ("SixEvils" :> 1) @@ ("Doom" :> 1)
    /\ adjust_log = << <<<<"Longevity", -1>>>>, <<<<"SixEvils", -1>>>> >>

IsPrefix(s, t) == Len(s) <= Len(t) /\ SubSeq(t, 1, Len(s)) = s
Appended == SubSeq(adjust_log', Len(adjust_log) + 1, Len(adjust_log'))
RuleNumber(pc) ==
    CASE pc = "rule1" -> 1 [] pc = "rule2" -> 2 [] pc = "rule3" -> 3
      [] pc = "rule4" -> 4 [] pc = "rule5" -> 5 [] pc = "filter" -> 6
      [] pc = "done" -> 7 [] OTHER -> 0

\* the rule an entry of the log comes from, by the form of the entry
RuleOfEntry(e) ==
    CASE Len(e) = 1 /\ e[1][1] \in {"HeavenDoctor", "Doom"} -> 1
      [] Len(e) = 1 /\ e[1][1] \in {"Longevity", "SixEvils"} -> 2
      [] Len(e) = 3 -> 3
      [] Len(e) = 4 -> 4
      [] Len(e) = 2 -> 5
      [] OTHER -> 0

\* how many of the steps of apply_advanced_rules can be taken from a state
EnabledSteps ==
    (IF ENABLED Rule1 THEN 1 ELSE 0) + (IF ENABLED Rule2 THEN 1 ELSE 0)
    + (IF ENABLED Rule3Match THEN 1 ELSE 0) + (IF ENABLED Rule3Skip THEN 1 ELSE 0)
    + (IF ENABLED Rule3Exit THEN 1 ELSE 0) + (IF ENABLED Rule4Match THEN 1 ELSE 0)
    + (IF ENABLED Rule4Skip THEN 1 ELSE 0) + (IF ENABLED Rule4Exit THEN 1 ELSE 0)
    + (IF ENABLED Rule5Skip THEN 1 ELSE 0) + (IF ENABLED Rule5Absorb THEN 1 ELSE 0)
    + (IF ENABLED Rule5NoRun THEN 1 ELSE 0) + (IF ENABLED Rule5Exit THEN 1 ELSE 0)
    + (IF ENABLED RemoveZero THEN 1 ELSE 0)

LogStep ==
    mode = "resolve" =>
        /\ IsPrefix(adjust_log, adjust_log')
        /\ base_counts' = base_counts /\ input_list' = input_list
        /\ RuleNumber(rpc') >= RuleNumber(rpc)
        /\ \A k \in 1..Len(Appended) : RuleOfEntry(Appended[k]) = RuleNumber(rpc)
        /\ (rpc \in {"rule3", "rule4", "rule5"} /\ rpc' = rpc) =>
              /\ ri' > ri
              /\ Len(Appended) <= 1

LogOrdered ==
    mode = "resolve" =>
        /\ base_counts = Counter(input_list)
        /\ \A i, j \in 1..Len(adjust_log) :
              i < j => RuleOfEntry(adjust_log[i]) <= RuleOfEntry(adjust_log[j])
        /\ EnabledSteps = (IF rpc = "done" THEN 0 ELSE 1)

\* C14: the adjustment log only grows, by appending; the entries of rule 1
\* come before those of rule 2, then 3, 4 and 5; a scanning rule appends
\* its entries as its index moves to the right; no rule changes the raw
\* tally; and every state has one step only, so that the raw counts, the
\* adjusted counts and the log are functions of the label sequence.
C14_LogAppendOnly == [][LogStep]_vars /\ []LogOrdered

C14_Witness ==
    /\ mode = "resolve" /\ rpc = "done"
    /\ input_list = <<"HeavenDoctor", "Doom", "Longevity", "SixEvils">>
    /\ Len(adjust_log) = 4
    /\ RuleOfEntry(adjust_log[2]) = 1 /\ RuleOfEntry(adjust_log[3]) = 2

BudgetDone == mode = "budget" /\ spc = "draw"

\* C15: whatever the random choices, the budget has HeavenDoctor = Doom,
\* compound = FiveGhosts, Longevity >= SixEvils, LifeForce >= Calamity,
\* Resting <= Calamity and LifeForce + Resting + Longevity = SixEvils +
\* 2 * Calamity, in terms of the adjusted counts of the bad fields only;
\* the input map is not changed.
C15_Budget ==
    /\ [](BudgetDone =>
            LET adjusted(f) == IF f \in DOMAIN magnetic_fields THEN magnetic_fields[f] ELSE 0
            IN  /\ DOMAIN cancel_fields = BudgetFields
                /\ cancel_fields["HeavenDoctor"] = adjusted("Doom")
                /\ cancel_fields[Compound] = adjusted("FiveGhosts")
                /\ cancel_fields["Longevity"] >= adjusted("SixEvils")
                /\ cancel_fields["LifeForce"] >= adjusted("Calamity")
                /\ cancel_fields["Resting"] >= 0
                /\ cancel_fields["Resting"] <= adjusted("Calamity")
                /\ cancel_fields["LifeForce"] + cancel_fields["Resting"]
                       + cancel_fields["Longevity"]
                     = adjusted("SixEvils") + 2 * adjusted("Calamity"))
    /\ [][mode = "budget" => magnetic_fields' = magnetic_fields]_vars

C15_Witness ==
    /\ BudgetDone
    /\ magnetic_fields = ("Calamity" :> 2) @@ ("HeavenDoctor" :> 1)
    /\ cancel_fields["HeavenDoctor"] = 0
    /\ cancel_fields["LifeForce"] = 2 /\ cancel_fields["Resting"] = 1
    /\ cancel_fields["Longevity"] = 1

Returned == mode = "analyze" /\ apc = "returned"
NothingAnalyzed ==
    /\ pairs = <<>> /\ names = <<>>
    /\ rpc = "idle" /\ spc = "idle"
    /\ result_counts = <<>> /\ result_adjusted_counts = <<>>
    /\ result_adjusted_log = <<>> /\ result_recommendations = 0

\* C16: a name with a character that has no stroke entry fails as a whole:
\* no pair and no label is produced, the rules and the generator do not
\* run, the counts, the log and the recommendations of the result stay
\* empty, and the error list of the returned result holds the failure.
C16_InvalidCharacter ==
    (Returned /\ input_type = "NAME" /\ ~Recognized(input_value)) =>
        /\ raw_analysis = None
        /\ NothingAnalyzed
        /\ result_errors # <<>>

\* C17: an empty or one-character digit input ends in a state that is no
\* error: no pairs, no labels, empty raw and adjusted counts, empty log,
\* and analyze records no error message for it.
C17_EmptyInput ==
    (Returned /\ input_type = "PHONE" /\ Len(input_value) <= 1) =>
        /\ pairs = <<>> /\ names = <<>>
        /\ result_counts = <<>> /\ result_adjusted_counts = <<>>
        /\ result_adjusted_log = <<>>
        /\ analysis_errors = <<>> /\ result_errors = <<>>

EntriesOfRule(r) == Cardinality({k \in 1..Len(adjust_log) : RuleOfEntry(adjust_log[k]) = r})
Occurrences(f, fs) == Cardinality({k \in 1..Len(fs) : fs[k] = f})

Rule3Step ==
    (mode = "resolve" /\ rpc = "rule3" /\ ri < Len(input_list) - 1) =>
        LET a == input_list[ri + 1]
            b == input_list[ri + 2]
            hit == /\ <<a, b>> \in {<<"HeavenDoctor", "HeavenDoctor">>,
                                     <<"HeavenDoctor", "Longevity">>,
                                     <<"LifeForce", "Resting">>,
                                     <<"Longevity", "LifeForce">>}
                   /\ Get(adjusted_counts, "Calamity") > 0
        IN  IF hit
            THEN /\ \A f \in Labels :
                       Get(adjusted_counts', f)
                         = Get(adjusted_counts, f) - Occurrences(f, <<a, b, "Calamity">>)
                 /\ {ri, ri + 1} \cap used_indexes = {}
                 /\ used_indexes' = used_indexes \cup {ri, ri + 1}
                 /\ ri' = ri + 2
            ELSE /\ adjusted_counts' = adjusted_counts
                 /\ used_indexes' = used_indexes
                 /\ ri' = ri + 1

Rule3Bounded ==
    mode = "resolve" =>
        /\ EntriesOfRule(3) <= Get(base_counts, "Calamity")
        /\ Get(adjusted_counts, "Calamity") >= 0
        /\ rpc \in {"rule3", "rule4"} => Cardinality(used_indexes) = 2 * EntriesOfRule(3)

\* C19: rule 3 scans the labels from the left; on one of its four pairs at
\* i, i+1 with Calamity > 0 it decrements the two fields and Calamity, marks
\* i and i+1 and goes on at i+2, otherwise at i+1; so the matched index
\* pairs are disjoint, there are at most as many matches as Calamity in the
\* raw tally, and the Calamity count is never negative.
C19_Rule3Scan == [][Rule3Step]_vars /\ []Rule3Bounded

C19_Witness ==
    /\ mode = "resolve" /\ rpc = "rule4" /\ ri = 0
    /\ input_list = <<"HeavenDoctor", "HeavenDoctor", "HeavenDoctor", "Calamity">>
    /\ used_indexes = {0, 1}
    /\ adjusted_counts = ("HeavenDoctor" :> 1) @@ ("Calamity" :> 0)

TripletAt(i) ==
    /\ i + 3 <= Len(input_list)
    /\ <<input_list[i + 1], input_list[i + 2], input_list[i + 3]>>
          = <<"LifeForce", "HeavenDoctor", "Longevity">>
InRule4 == mode = "resolve" /\ rpc = "rule4" /\ ri < Len(input_list) - 2
Rule4Fires ==
    /\ \A f \in Labels :
          Get(adjusted_counts', f)
            = Get(adjusted_counts, f)
                - Occurrences(f, <<"LifeForce", "HeavenDoctor", "Longevity", "FiveGhosts">>)
    /\ Len(adjust_log') = Len(adjust_log) + 1
    /\ ri' = ri + 3
    /\ used_indexes' = used_indexes

\* C20 as stated: rule 4 matches the triplet whenever FiveGhosts > 0 without
\* looking at or adding to the consumed positions; whenever the labels hold
\* the triplet, a Calamity and a FiveGhosts, rule 3 has fired on the
\* HeavenDoctor, Longevity positions of the triplet and rule 4 fires on the
\* triplet; rule 4 matches at most as often as FiveGhosts is in the raw tally.
C20_TripletOverlapAlways ==
    /\ [][(InRule4 /\ TripletAt(ri) /\ Get(adjusted_counts, "FiveGhosts") > 0)
             => Rule4Fires]_vars
    /\ [][(InRule4 /\ TripletAt(ri) /\ Get(base_counts, "Calamity") >= 1
             /\ Get(base_counts, "FiveGhosts") >= 1)
             => ({ri + 1, ri + 2} \subseteq used_indexes /\ Rule4Fires)]_vars
    /\ [](mode = "resolve" => EntriesOfRule(4) <= Get(base_counts, "FiveGhosts"))

\* C20, amended: rule 4 matches the triplet whenever FiveGhosts > 0 without
\* looking at or adding to the consumed positions, also when rule 3 consumed
\* positions of it; for the labels LifeForce, HeavenDoctor, Longevity,
\* Calamity, FiveGhosts rule 3 fires on HeavenDoctor, Longevity and rule 4
\* on the triplet, so both are decremented twice; rule 3 fires there only if
\* Calamity is left when its scan arrives; rule 4 matches at most as often
\* as FiveGhosts is in the raw tally.
C20_TripletIgnoresConsumed ==
    /\ [][(InRule4 /\ TripletAt(ri) /\ Get(adjusted_counts, "FiveGhosts") > 0)
             => Rule4Fires]_vars
    /\ [][(InRule4 /\ ~(TripletAt(ri) /\ Get(adjusted_counts, "FiveGhosts") > 0))
             => (adjusted_counts' = adjusted_counts /\ adjust_log' = adjust_log
                 /\ used_indexes' = used_indexes /\ ri' = ri + 1)]_vars
    /\ [](mode = "resolve" => EntriesOfRule(4) <= Get(base_counts, "FiveGhosts"))
    /\ []((mode = "resolve" /\ rpc = "rule5" /\ ri = 0
            /\ input_list = <<"LifeForce", "HeavenDoctor", "Longevity", "Calamity",
                               "FiveGhosts">>)
           => /\ used_indexes = {1, 2}
              /\ EntriesOfRule(3) = 1 /\ EntriesOfRule(4) = 1
              /\ Get(adjusted_counts, "HeavenDoctor") = Get(base_counts, "HeavenDoctor") - 2
              /\ Get(adjusted_counts, "Longevity") = Get(base_counts, "Longevity") - 2
              /\ Get(adjusted_counts, "LifeForce") = Get(base_counts, "LifeForce") - 1)

C20_Witness ==
    /\ mode = "resolve" /\ rpc = "rule4" /\ ri = 3
    /\ input_list = <<"LifeForce", "HeavenDoctor", "Longevity", "Calamity", "FiveGhosts">>
    /\ used_indexes = {1, 2}
    /\ Get(adjusted_counts, "HeavenDoctor") = -1
    /\ Get(adjusted_counts, "FiveGhosts") = 0

AllPairs == UNION {magneticic_pairs[f] : f \in DOMAIN magneticic_pairs}

\* the values a step can give to each variable of the generator
NextSequences ==
    {magnetic_sequence, <<>>} \cup {<<p>> : p \in AllPairs}
        \cup {Append(magnetic_sequence, p) : p \in AllPairs}
LessOne(c) == IF DOMAIN c = BudgetFields
              THEN {[c EXCEPT ![f] = @ - 1] : f \in BudgetFields} ELSE {}
NextRemaining ==
    {remaining_fields, cancel_fields, <<>>} \cup LessOne(cancel_fields)
        \cup LessOne(remaining_fields)
NextBudgets ==
    IF spc = "budget"
    THEN {c \in [BudgetFields -> 0..MaxBadTotal] : c["LifeForce"] = 0 /\ c["Resting"] = 0}
    ELSE {cancel_fields} \cup
         (IF DOMAIN cancel_fields = BudgetFields
          THEN {[f \in BudgetFields |->
                    cancel_fields[f] + (IF f = "LifeForce" THEN 1 ELSE 0)
                                     + (IF f = r THEN 1 ELSE 0)] :
                    r \in {"LifeForce", "Resting", "Longevity"}}
          ELSE {})
NextNumerals ==
    {lucky, <<>>} \cup (IF magnetic_sequence = <<>> THEN {} ELSE {render(magnetic_sequence)})
NextPositions == {"budget", "calamity", "draw", "grow", "rendered", "returned"}

\* from a state with a given seed every variable of the generator has one
\* next value only
OneSuccessor ==
    (mode = "seeded" /\ ENABLED SeededNext) =>
        /\ \E v \in NextPositions :
              ENABLED (SeededNext /\ spc' = v) /\ ~ENABLED (SeededNext /\ spc' # v)
        /\ \E v \in NextBudgets :
              /\ ENABLED (SeededNext /\ cancel_fields' = v)
              /\ ~ENABLED (SeededNext /\ cancel_fields' # v)
        /\ \E v \in NextRemaining :
              /\ ENABLED (SeededNext /\ remaining_fields' = v)
              /\ ~ENABLED (SeededNext /\ remaining_fields' # v)
        /\ \E v \in NextSequences :
              /\ ENABLED (SeededNext /\ magnetic_sequence' = v)
              /\ ~ENABLED (SeededNext /\ magnetic_sequence' # v)
        /\ \E v \in NextNumerals :
              ENABLED (SeededNext /\ lucky' = v) /\ ~ENABLED (SeededNext /\ lucky' # v)
        /\ \E v \in {0, results_len, results_len + 1} :
              /\ ENABLED (SeededNext /\ results_len' = v)
              /\ ~ENABLED (SeededNext /\ results_len' # v)

RECURSIVE SumOf(_, _)
SumOf(c, keys) ==
    IF keys = {} THEN 0
    ELSE LET k == CHOOSE x \in keys : TRUE
         IN  c[k] + SumOf(c, keys \ {k})
Total(c) == SumOf(c, DOMAIN c)

\* 0-based position p holds a Resting label that is not consumed
FreeResting(p) ==
    /\ p >= 0 /\ p < Len(input_list)
    /\ input_list[p + 1] = "Resting" /\ p \notin used_indexes
\* the number of free Resting positions that follow position i directly
RunAfter(i) ==
    CHOOSE r \in 0..Len(input_list) :
        /\ \A k \in 1..r : FreeResting(i + k)
        /\ ~FreeResting(i + r + 1)
InRule5 == mode = "resolve" /\ rpc = "rule5" /\ ri < Len(input_list) - 1

Rule5Step ==
    InRule5 =>
        LET f == input_list[ri + 1]
            r == RunAfter(ri)
        IN  /\ Total(adjusted_counts') = Total(adjusted_counts)
            /\ IF ri \in used_indexes \/ f = "Resting"
               THEN /\ adjusted_counts' = adjusted_counts /\ adjust_log' = adjust_log
                    /\ used_indexes' = used_indexes /\ ri' = ri + 1
               ELSE IF r > 0 /\ Get(adjusted_counts, "Resting") >= r
               THEN /\ \A x \in Labels :
                          Get(adjusted_counts', x)
                            = Get(adjusted_counts, x) + (IF x = f THEN r ELSE 0)
                                - (IF x = "Resting" THEN r ELSE 0)
                    /\ adjust_log' = Append(adjust_log, <<<<f, r>>, <<"Resting", -r>>>>)
                    /\ used_indexes' = used_indexes \cup (ri..(ri + r))
                    /\ (ri..(ri + r)) \cap used_indexes = {}
                    /\ ri' = ri + r + 1
               ELSE /\ adjusted_counts' = adjusted_counts /\ adjust_log' = adjust_log
                    /\ used_indexes' = used_indexes /\ ri' = ri + 1

\* the Resting labels at the head of the sequence are never consumed
HeadRestingKept ==
    mode = "resolve" =>
        \A p \in 0..(Len(input_list) - 1) :
            (\A q \in 0..p : input_list[q + 1] = "Resting") => p \notin used_indexes

\* C21: rule 5 scans from index 0; a consumed or Resting position is
\* skipped; otherwise, with r the number of free Resting positions right
\* after it, if r > 0 and count[Resting] >= r the field of the position
\* gains r, Resting loses r, the position and the run become consumed (none
\* of them was) and the scan goes on after the run; else it goes on at
\* i + 1.  Every step keeps the sum of the counts, and the Resting labels at
\* the head of the sequence are never consumed.
C21_RunAbsorption == [][Rule5Step]_vars /\ []HeadRestingKept

C21_Witness ==
    /\ mode = "resolve" /\ rpc = "rule5" /\ ri = 4
    /\ input_list = <<"Resting", "Doom", "Resting", "Resting">>
    /\ used_indexes = {1, 2, 3}
    /\ adjusted_counts = ("Resting" :> 1) @@ ("Doom" :> 3)

\* the catalogues a budget entry stands for
OwnCatalogues(f) ==
    IF f = "HeavenDoctor+LifeForce+Longevity"
    THEN {"HeavenDoctor", "LifeForce", "Longevity"} ELSE {f}
\* the budget entries with budget left that have the pair p in a catalogue
Payers(p) ==
    {f \in DOMAIN remaining_fields :
        remaining_fields[f] > 0 /\ \E c \in OwnCatalogues(f) : p \in magneticic_pairs[c]}
\* the catalogue pairs starting with d that some entry with budget left has
Budgeted(d) == {p \in AllPairs : p[1] = d /\ Payers(p) # {}}
Growing ==
    /\ mode = "chain" /\ spc = "grow" /\ spc' = "grow"
    /\ magnetic_sequence' # magnetic_sequence

GrowthStep ==
    Growing =>
        LET d == magnetic_sequence[Len(magnetic_sequence)][2]
        IN  /\ Len(magnetic_sequence) >= 1 /\ Len(magnetic_sequence) < length - 1
            /\ \E p \in AllPairs :
                  /\ p[1] = d
                  /\ magnetic_sequence' = Append(magnetic_sequence, p)
                  /\ IF Budgeted(d) # {}
                     THEN \E f \in Payers(p) :
                             remaining_fields' = [remaining_fields EXCEPT ![f] = @ - 1]
                     ELSE remaining_fields' = remaining_fields

BudgetNeverNegative ==
    mode = "chain" => \A f \in DOMAIN remaining_fields : remaining_fields[f] >= 0

\* C22: every growth step appends a catalogue pair starting with the
\* second digit d of the last pair; when some entry with budget left has a
\* pair starting with d, the pair is one of those and exactly one such
\* entry loses 1, all others staying; only when there is none the pair of
\* the unrestricted search is appended, and then no entry changes.  No
\* entry of the remaining budget is ever negative.
C22_TierPriority == [][GrowthStep]_vars /\ []BudgetNeverNegative

C22_Witness ==
    /\ mode = "chain" /\ spc = "grow" /\ length = 4
    /\ Len(magnetic_sequence) = 3 /\ used_fallback
    /\ cancel_fields["HeavenDoctor"] = 2 /\ remaining_fields["HeavenDoctor"] = 0
    /\ magnetic_sequence[1] \in magneticic_pairs["HeavenDoctor"]
    /\ magnetic_sequence[2] \in magneticic_pairs["HeavenDoctor"]

\* the budget a step starts from, and the chain it starts from
BudgetBefore == IF spc = "draw" THEN cancel_fields ELSE remaining_fields
ConsumesCompound ==
    /\ mode = "synth" /\ spc \in {"draw", "grow"} /\ spc' = "grow"
    /\ remaining_fields'["HeavenDoctor+LifeForce+Longevity"]
          = BudgetBefore["HeavenDoctor+LifeForce+Longevity"] - 1
PlacesTriple ==
    LET n == Len(magnetic_sequence)
        seq == magnetic_sequence'
    IN  /\ (length - 1) - n >= 3
        /\ Len(seq) = n + 3
        /\ SubSeq(seq, 1, n) = magnetic_sequence
        /\ seq[n + 1] \in magneticic_pairs["LifeForce"]
        /\ seq[n + 2] \in magneticic_pairs["HeavenDoctor"]
        /\ seq[n + 3] \in magneticic_pairs["Longevity"]
        /\ seq[n + 1][2] = seq[n + 2][1] /\ seq[n + 2][2] = seq[n + 3][1]

\* C23: every step of the chain function that consumes a unit of the
\* compound LifeForce+HeavenDoctor+Longevity requirement places three
\* consecutive chained pairs, of the LifeForce, the HeavenDoctor and the
\* Longevity catalogue in this order, and is taken only while at least
\* three pair slots remain; no unit is consumed by placing a single pair.
C23_CompoundTriple == [][ConsumesCompound => PlacesTriple]_vars

Drawing == mode = "synth" /\ spc \in {"draw", "grow", "rendered", "returned"}

\* a draw starts from the budget as generate_lucky_numbers returned it
DrawStart ==
    (mode = "synth" /\ spc = "draw" /\ spc' = "grow") =>
        \/ remaining_fields' = cancel_fields
        \/ \E f \in DOMAIN cancel_fields :
              /\ cancel_fields[f] > 0
              /\ remaining_fields' = [cancel_fields EXCEPT ![f] = @ - 1]

\* every entry with budget can start the next draw, whatever was drawn before
EveryStartOpen ==
    (mode = "synth" /\ spc = "draw" /\ results_len < count) =>
        \A f \in DOMAIN cancel_fields :
            cancel_fields[f] > 0 =>
                ENABLED (SNext /\ remaining_fields' = [cancel_fields EXCEPT ![f] = @ - 1])

\* C24: generate_multiple_lucky_numbers computes the budget once, before
\* the first draw; no step of a draw changes it, each draw starts from a
\* copy of it (the whole budget, less the unit of its first pair), and each
\* entry with budget can start each draw, so a draw does not depend on the
\* budget the draws before it consumed.
C24_BudgetShared ==
    /\ [][Drawing => (cancel_fields' = cancel_fields /\ Drawing')]_vars
    /\ [][DrawStart]_vars
    /\ []EveryStartOpen

C24_Witness ==
    /\ mode = "synth" /\ spc = "grow" /\ results_len = 1 /\ count = 2
    /\ cancel_fields["HeavenDoctor"] = 1 /\ remaining_fields["HeavenDoctor"] = 0
    /\ cancel_fields["LifeForce"] = 0 /\ cancel_fields["Longevity"] = 0

Validated == mode = "pipeline" /\ ppc # "input"
Accepted == Validated /\ ppc # "rejected"

\* C25: a configuration with a fixed affix passes validate_all only if the
\* affix is shorter than the digit length by 2 or more, so that the
\* generated part has at least 2 characters; a digit length of 1 or less
\* never passes.
C25_AffixRoom ==
    /\ (Validated /\ digits_length <= 1) => (ppc = "rejected" /\ errors # <<>>)
    /\ (Accepted /\ fixed_digits_position # "NONE") =>
          /\ errors = <<>>
          /\ Len(fixed_digits_value) <= digits_length - 2
          /\ digits_length - Len(fixed_digits_value) >= 2

FreeRestingCount ==
    Cardinality({p \in 0..(Len(input_list) - 1) : FreeResting(p)})
Rule5Scans ==
    InRule5 /\ ri \notin used_indexes /\ input_list[ri + 1] # "Resting"

RestingInvariant ==
    mode = "resolve" =>
        /\ Get(adjusted_counts, "Resting") = FreeRestingCount
        /\ Get(adjusted_counts, "Resting") >= 0
        /\ (Rule5Scans /\ RunAfter(ri) > 0) =>
              Get(adjusted_counts, "Resting") >= RunAfter(ri)

\* C26: in every state of apply_advanced_rules the Resting count equals
\* the number of positions labelled Resting that are not consumed (before
\* and after rule 3 and every step of rule 5); so it is never negative, the
\* test count[Resting] >= r of rule 5 is true for every run of r > 0 it
\* finds, and every such run is absorbed.
C26_RestingCount ==
    /\ []RestingInvariant
    /\ [][(Rule5Scans /\ RunAfter(ri) > 0) =>
             (/\ ri' = ri + RunAfter(ri) + 1
              /\ Get(adjusted_counts', "Resting")
                    = Get(adjusted_counts, "Resting") - RunAfter(ri))]_vars

C26_Witness ==
    /\ mode = "resolve" /\ rpc = "rule5" /\ ri = 5
    /\ input_list = <<"LifeForce", "Resting", "Calamity", "Doom", "Resting">>
    /\ used_indexes = {0, 1, 3, 4}
    /\ Get(adjusted_counts, "Resting") = 0 /\ Get(adjusted_counts, "Doom") = 2

ResolverReturned == mode = "resolve" /\ rpc = "done"

\* C28: the counts of the dict apply_advanced_rules returns (the entries
\* > 0 only) add up to at most the number of labels, which is the sum of
\* the raw counts, although rule 5 can raise a count above its raw value
\* and the entries the filter removes can be below 0.
C28_AdjustedSumBounded ==
    ResolverReturned =>
        /\ Total(base_counts) = Len(input_list)
        /\ Total(adjusted_counts) <= Len(input_list)
        /\ Total(adjusted_counts) <= Total(base_counts)

C28_Witness ==
    /\ ResolverReturned
    /\ input_list = <<"HeavenDoctor", "HeavenDoctor", "Doom", "Calamity",
                       "LifeForce", "Resting">>
    /\ base_counts["LifeForce"] = 1 /\ base_counts["HeavenDoctor"] = 2
    /\ adjusted_counts = ("LifeForce" :> 2)
    /\ \E k \in 1..Len(adjust_log) :
          adjust_log[k] = <<<<"HeavenDoctor", -1>>, <<"HeavenDoctor", -1>>, <<"Calamity", -1>>>>

Max(a, b) == IF a >= b THEN a ELSE b
ChainGrowing == mode = "chain" /\ spc = "grow"
ChainRendered == mode = "chain" /\ spc = "rendered"

\* some catalogue pair starts with the last digit of the chain
CanContinue ==
    ChainGrowing =>
        \E p \in AllPairs : p[1] = magnetic_sequence[Len(magnetic_sequence)][2]

ExactLength ==
    ChainRendered =>
        /\ Len(magnetic_sequence) = Max(length - 1, 1)
        /\ Len(lucky) = Max(length, 2)

\* the loop is left by its condition only, and each iteration adds a pair
LoopStep ==
    ChainGrowing =>
        /\ spc' = "rendered" => ~(Len(magnetic_sequence) < length - 1)
        /\ spc' = "grow" => Len(magnetic_sequence') = Len(magnetic_sequence) + 1

\* C27: the growth loop of the chain function ends for every budget,
\* length and random choice, and never by its break: some catalogue pair
\* starts with the last digit of every reachable chain, the loop is left
\* only when the chain has length - 1 pairs, each iteration adds one pair,
\* and the chain is rendered with max(length - 1, 1) pairs as a numeral of
\* max(length, 2) characters.
C27_GrowthTerminates ==
    /\ []CanContinue
    /\ []ExactLength
    /\ [][LoopStep]_vars
    /\ (ChainGrowing ~> ChainRendered)

C27_Witness ==
    /\ ChainRendered /\ length = 4 /\ used_fallback
    /\ magnetic_sequence = <<<<0, 0>>, <<0, 0>>, <<0, 0>>>>
    /\ lucky = <<0, 0, 0, 0>>

ChainReturned == mode = "chain" /\ spc = "rendered"

\* C29: the numeral of the chain function has no character 5;
\* transform_numbers gives back the pairs of the chain, in order, and
\* get_name_from_pair gives each of them Resting, LifeForce, HeavenDoctor
\* or Longevity; a numeral whose first pair is 00 has the character 0 only.
C29_ClassifiesBack ==
    ChainReturned =>
        /\ \A k \in 1..Len(lucky) : lucky[k] \in Digits \ {5}
        /\ transform_numbers(lucky) = magnetic_sequence
        /\ \A k \in 1..Len(magnetic_sequence) :
              get_name_from_pair(transform_numbers(lucky)[k], NameOrder)
                  \in {"Resting", "LifeForce", "HeavenDoctor", "Longevity"}
        /\ magnetic_sequence[1] = <<0, 0>> => \A k \in 1..Len(lucky) : lucky[k] = 0

C29_Witness ==
    /\ ChainReturned /\ length = 4
    /\ magnetic_sequence = <<<<1, 3>>, <<3, 1>>, <<1, 9>>>>
    /\ lucky = <<1, 3, 1, 9>>
    /\ classify(transform_numbers(lucky), NameOrder)
          = <<"HeavenDoctor", "HeavenDoctor", "Longevity">>

Owners(p) == {f \in DOMAIN NAME_MAP : p \in NAME_MAP[f]}
AllFives(s) == \A k \in 1..Len(s) : s[k] = 5
Unmixed(p) ==
    \/ p[1] \in GoodDigits /\ p[2] \in GoodDigits
    \/ p = <<0, 0>>
    \/ p = <<5, 5>>

\* C30: each pair over the digits 1,2,3,4,6,7,8,9 and the pair 00 is in
\* exactly one catalogue of NAME_MAP; transform_numbers emits no pair that
\* mixes 0 with another digit or 5 with another digit; so for a digit
\* string of length >= 2 the labels hold Unknown if and only if the string
\* has the character 5 only, and then every pair is 55.
C30_CatalogueCoverage ==
    /\ \A a, b \in GoodDigits : Cardinality(Owners(<<a, b>>)) = 1
    /\ Cardinality(Owners(<<0, 0>>)) = 1
    /\ Owners(<<5, 5>>) = {}
    /\ (mode = "transform" /\ Paired) =>
          \A k \in 1..Len(pairs) : Unmixed(pairs[k])
    /\ (mode = "transform" /\ tpc = "done" /\ Len(orig_str) >= 2) =>
          /\ (\E k \in 1..Len(names) : names[k] = "Unknown") <=> AllFives(orig_str)
          /\ AllFives(orig_str) =>
                (pairs # <<>> /\ \A k \in 1..Len(pairs) : pairs[k] = <<5, 5>>)

C30_Witness ==
    /\ mode = "transform" /\ tpc = "done" /\ orig_str = <<5, 5, 5>>
    /\ pairs = <<<<5, 5>>, <<5, 5>>>>
    /\ names = <<"Unknown", "Unknown">>

====
